---- MODULE Spec2Model ----
(***************************************************************************)
(* Model of the conversational filter-resolution pipeline of the           *)
(* restaurant map: the input sanitizer (lib/utils.ts), the place search    *)
(* endpoint (api/places/search), the map wrapper (handleFilter,            *)
(* fetchRatings) and the chat view (processMessage, handleSubmit,          *)
(* handleQuickQuestion, handleClear).                                      *)
(*                                                                         *)
(* A JavaScript string is a sequence of one-character strings; any other   *)
(* JavaScript value is a tagged record.                                    *)
(***************************************************************************)
EXTENDS Integers, Sequences, FiniteSets, TLC

\* ------------------------------------------------------------------------
\* JavaScript values
\* ------------------------------------------------------------------------
Null == [t |-> "null"]

Undef == [t |-> "undefined"]

Str(s) == [t |-> "str", s |-> s]

Bool(b) == [t |-> "bool", b |-> b]

Num(n) == [t |-> "num", n |-> n]

Arr(a) == [t |-> "arr", a |-> a]

IsStr(v) == v.t = "str"

\* ------------------------------------------------------------------------
\* Bounds of the string inputs
\* ------------------------------------------------------------------------
\* longest freely chosen part of an input string
MaxTail == 2

\* how far the padded inputs go beyond VALIDATION.MAX_SEARCH_LENGTH
MaxOver == 2

\* processMessage invocations (first attempts and retries) per run
MaxCalls == 2

\* chat turns accepted per run
MaxTurns == 2

\* place searches issued per run
MaxSearches == 2

\* messages the list may hold before a refused submission is left out
MaxFavOps == 3

MaxMsgs == 6

\* length of one step of the clock, in milliseconds
TickMs == 30000

\* ------------------------------------------------------------------------
\* lib/constants.ts
\* ------------------------------------------------------------------------
MAX_SEARCH_LENGTH == 100

MAX_PLACES_LIMIT == 2000

MAX_DISPLAY_PLACES == 10

REQUEST_TIMEOUT == 30000

MAX_FREE_QUERIES == 3

\* ------------------------------------------------------------------------
\* Strings
\* ------------------------------------------------------------------------
\* the characters removed by the regular expression /[%_'"\\]/g
SpecialChars == {"%", "_", "'", "\"", "\\"}

\* characters String.prototype.trim() strips
WhiteSpace == {" ", "\t"}

\* String.prototype.replace(/[%_'"\\]/g, '')
RemoveSpecial(s) == SelectSeq(s, LAMBDA c : c \notin SpecialChars)

RECURSIVE TrimStart(_)
TrimStart(s) ==
  IF s # << >> /\ Head(s) \in WhiteSpace THEN TrimStart(Tail(s)) ELSE s

RECURSIVE TrimEnd(_)
TrimEnd(s) ==
  IF s # << >> /\ s[Len(s)] \in WhiteSpace
  THEN TrimEnd(SubSeq(s, 1, Len(s) - 1)) ELSE s

\* String.prototype.trim()
\* a trim that removes nothing
NoTrim(s) == s

Trim(s) == TrimEnd(TrimStart(s))

\* String.prototype.slice(0, n)
Slice0(s, n) == SubSeq(s, 1, IF Len(s) < n THEN Len(s) ELSE n)

\* sanitizeInput without the length limit
sanitizeInputNoSlice(v) ==
  IF ~IsStr(v) \/ v.s = << >> THEN Null
  ELSE LET r == Trim(RemoveSpecial(v.s))
       IN  IF r = << >> THEN Null ELSE Str(r)


\* sanitizeInput: null for a missing, non-string or empty input, otherwise
\* replace, trim, slice, and null again when nothing is left
sanitizeInput(v) ==
  IF ~IsStr(v) \/ v.s = << >> THEN Null
  ELSE LET r == Slice0(Trim(RemoveSpecial(v.s)), MAX_SEARCH_LENGTH)
       IN  IF r = << >> THEN Null ELSE Str(r)

Digits == <<"0", "1", "2", "3", "4", "5", "6", "7", "8", "9">>

\* String(v) for the values of the model (numbers are single digits)
JsString(v) ==
  CASE v.t = "str"  -> v.s
    [] v.t = "bool" -> IF v.b THEN <<"t", "r", "u", "e">>
                       ELSE <<"f", "a", "l", "s", "e">>
    [] v.t = "num"  -> <<Digits[v.n + 1]>>
    [] OTHER        -> <<"?">>

\* the test hasNonEmptyValues applies to one value
NonEmptyValue(v) ==
  /\ v # Null
  /\ v # Undef
  /\ IF v.t = "arr" THEN Len(v.a) > 0 ELSE Trim(JsString(v)) # << >>

\* hasNonEmptyValues: Object.values(obj).some(...)
hasNonEmptyValues(obj) == \E k \in DOMAIN obj : NonEmptyValue(obj[k])

\* ------------------------------------------------------------------------
\* The places table and PostgreSQL pattern matching
\* ------------------------------------------------------------------------
UpperCase ==
  <<"A", "B", "C", "D", "E", "F", "G", "H", "I", "J", "K", "L", "M",
    "N", "O", "P", "Q", "R", "S", "T", "U", "V", "W", "X", "Y", "Z">>

LowerCase ==
  <<"a", "b", "c", "d", "e", "f", "g", "h", "i", "j", "k", "l", "m",
    "n", "o", "p", "q", "r", "s", "t", "u", "v", "w", "x", "y", "z">>

LowerChar(c) ==
  IF \E i \in 1..Len(UpperCase) : UpperCase[i] = c
  THEN LowerCase[CHOOSE i \in 1..Len(UpperCase) : UpperCase[i] = c]
  ELSE c

LowerStr(s) == [i \in 1..Len(s) |-> LowerChar(s[i])]

\* LIKE: % matches any run of characters, _ any one character, and a
\* backslash makes the next character literal
RECURSIVE LikeMatch(_, _)
LikeMatch(p, s) ==
  IF p = << >> THEN s = << >>
  ELSE IF Head(p) = "%"
       THEN LikeMatch(Tail(p), s) \/ (s # << >> /\ LikeMatch(p, Tail(s)))
  ELSE IF Head(p) = "_"
       THEN s # << >> /\ LikeMatch(Tail(p), Tail(s))
  ELSE IF Head(p) = "\\" /\ Len(p) >= 2
       THEN s # << >> /\ Head(s) = p[2] /\ LikeMatch(Tail(Tail(p)), Tail(s))
  ELSE s # << >> /\ Head(s) = Head(p) /\ LikeMatch(Tail(p), Tail(s))

\* column ILIKE pattern: never true of a NULL column
ILike(col, pat) == IsStr(col) /\ LikeMatch(LowerStr(pat), LowerStr(col.s))

\* the pattern `%${v}%` of the route
Around(v) == <<"%">> \o v \o <<"%">>

\* the rows of the places table; lat/lng are abstracted to hasCoords
PlacesTable ==
  << [id |-> 1, name |-> Str(<<"A", "b">>), address |-> Str(<<"x">>),
      city |-> Str(<<"T", "o">>), cuisine_subtype |-> Str(<<"R", "a">>),
      cuisine_category |-> Str(<<"J", "a">>), price_level |-> Str(<<"$">>),
      halal_status |-> Str(<<"C", "e">>), tags |-> <<<<"n", "a">>>>,
      hasCoords |-> TRUE, place_id |-> TRUE],
     [id |-> 2, name |-> Str(<<"C", "d">>), address |-> Str(<<"T", "o">>),
      city |-> Str(<<"O", "s">>), cuisine_subtype |-> Str(<<"S", "u">>),
      cuisine_category |-> Str(<<"I", "n">>), price_level |-> Str(<<"$", "$">>),
      halal_status |-> Str(<<"M", "f">>), tags |-> << >>,
      hasCoords |-> TRUE, place_id |-> TRUE],
     [id |-> 3, name |-> Str(<<"r", "x", "a">>), address |-> Null,
      city |-> Null, cuisine_subtype |-> Null,
      cuisine_category |-> Str(<<"J", "a">>), price_level |-> Null,
      halal_status |-> Null, tags |-> <<<<"n", "_", "a">>, <<"x">>>>,
      hasCoords |-> FALSE, place_id |-> FALSE] >>

RowIds == {PlacesTable[i].id : i \in 1..Len(PlacesTable)}

Row(id) == CHOOSE r \in {PlacesTable[i] : i \in 1..Len(PlacesTable)} : r.id = id

\* ------------------------------------------------------------------------
\* POST /api/places/search
\* ------------------------------------------------------------------------
Obj(f) == [t |-> "obj", o |-> f]

\* filter.k, undefined for a key the object does not have
Get(f, k) == IF k \in DOMAIN f THEN f[k] ELSE Undef

EmptyObject == [k \in {} |-> Null]

Cond(col, v) == [col |-> col, pat |-> Around(v)]

\* the conditions pushed for one search term
TermConditions(t) ==
  << Cond("name", t), Cond("address", t), Cond("city", t),
     Cond("cuisine_subtype", t), Cond("cuisine_category", t) >>

RECURSIVE SearchTermConditions(_)
SearchTermConditions(terms) ==
  IF terms = << >> THEN << >>
  ELSE LET t == sanitizeInput(Head(terms))
       IN  (IF t = Null THEN << >> ELSE TermConditions(t.s))
             \o SearchTermConditions(Tail(terms))

\* the cuisine filter with its two conditions chained one by one, which
\* conjoins them
CuisineClausesAnd(cuisineSubtype, cuisineCategory) ==
  (IF cuisineSubtype # Null
   THEN << [kind |-> "ilike",
            conds |-> <<Cond("cuisine_subtype", cuisineSubtype.s)>>] >>
   ELSE << >>)
  \o (IF cuisineCategory # Null
      THEN << [kind |-> "ilike",
               conds |-> <<Cond("cuisine_category", cuisineCategory.s)>>] >>
      ELSE << >>)

\* the cuisine filter: one or(...) over the conditions of whichever of the
\* two sanitized fields is not null
CuisineClauses(cuisineSubtype, cuisineCategory) ==
  IF cuisineSubtype # Null \/ cuisineCategory # Null
  THEN << [kind |-> "or",
           conds |-> (IF cuisineSubtype # Null
                      THEN <<Cond("cuisine_subtype", cuisineSubtype.s)>>
                      ELSE << >>)
                     \o (IF cuisineCategory # Null
                         THEN <<Cond("cuisine_category", cuisineCategory.s)>>
                         ELSE << >>)] >>
  ELSE << >>

\* the filters the route chains on the query, in order; chained filters
\* are conjoined, the conditions of one or(...) are disjoined
BuildQuery(filter) ==
  LET cuisineSubtype  == sanitizeInput(Get(filter, "cuisine_subtype"))
      cuisineCategory == sanitizeInput(Get(filter, "cuisine_category"))
      keyword         == sanitizeInput(Get(filter, "keyword"))
      tag             == sanitizeInput(Get(filter, "tag"))
      priceLevel      == sanitizeInput(Get(filter, "price_level"))
      terms           == Get(filter, "search_terms")
      orConditions    == IF terms.t = "arr" /\ Len(terms.a) > 0
                         THEN SearchTermConditions(terms.a) ELSE << >>
  IN  CuisineClauses(cuisineSubtype, cuisineCategory)
      \o (IF keyword # Null
          THEN << [kind |-> "or",
                   conds |-> << Cond("name", keyword.s),
                                Cond("address", keyword.s),
                                Cond("city", keyword.s) >>] >>
          ELSE << >>)
      \o (IF tag # Null
          THEN << [kind |-> "contains", vals |-> <<tag.s>>] >>
          ELSE << >>)
      \o (IF priceLevel # Null
          THEN << [kind |-> "ilike",
                   conds |-> <<Cond("price_level", priceLevel.s)>>] >>
          ELSE << >>)
      \o (IF Len(orConditions) > 0
          THEN << [kind |-> "or", conds |-> orConditions] >>
          ELSE << >>)

\* one chained filter evaluated on one row
ClauseHolds(row, cl) ==
  IF cl.kind = "contains"
  THEN \A i \in 1..Len(cl.vals) :
         \E j \in 1..Len(row.tags) : row.tags[j] = cl.vals[i]
  ELSE \E i \in 1..Len(cl.conds) : ILike(row[cl.conds[i].col], cl.conds[i].pat)

\* .limit(n)
Limit(rows, n) == SubSeq(rows, 1, IF Len(rows) < n THEN Len(rows) ELSE n)

\* the ids of the rows the store returns for a query
ExecQuery(q) ==
  LET hit == SelectSeq(PlacesTable,
                       LAMBDA r : \A i \in 1..Len(q) : ClauseHolds(r, q[i]))
  IN  Limit([i \in 1..Len(hit) |-> hit[i].id], MAX_PLACES_LIMIT)

\* body?.filter || {}
BodyFilter(body) == IF body.filter.t = "obj" THEN body.filter.o ELSE EmptyObject

\* the query the route sends to the store
SearchQuery(body) ==
  IF ~hasNonEmptyValues(BodyFilter(body)) THEN << >>
  ELSE BuildQuery(BodyFilter(body))

ServerError == [status |-> 500, places |-> << >>, error |-> TRUE]

\* the route reading body.filter without the {} default: Object.values
\* throws on a missing filter and the catch answers 500
POSTNoDefault(body, storeOk) ==
  IF body.filter.t # "obj" \/ ~storeOk THEN ServerError
  ELSE [status |-> 200, places |-> ExecQuery(SearchQuery(body)), error |-> FALSE]

\* the route: { places } with status 200, or { error } with status 500
\* when the store reports an error
POST(body, storeOk) ==
  IF ~storeOk THEN ServerError
  ELSE [status |-> 200, places |-> ExecQuery(SearchQuery(body)), error |-> FALSE]

\* ------------------------------------------------------------------------
\* State
\* ------------------------------------------------------------------------
VARIABLES
  places,              \* MapWrapper: ids of the displayed places
  placesWithRatings,   \* MapWrapper: ids of the places enriched with ratings
  ratingsCache,        \* MapWrapper: ids whose rating is cached
  isFiltering,         \* MapWrapper: a place search is loading
  searchError,         \* MapWrapper: "none", "failed" or "network"
  activeFilters,       \* MapWrapper: the filter of the quick filter bar
  selectedPlace,       \* MapWrapper: id of the selected place, 0 for none
  searches,            \* the handleFilter invocations awaiting an answer
  nSearches,           \* how many of them were started
  favs,                \* localStorage: the favorite ids
  messages,            \* ChatInterface: the message list
  loading,             \* ChatInterface
  isRetrying,          \* ChatInterface
  lastFilter,          \* ChatInterface: the last resolved filter
  abortControllerRef,  \* ChatInterface: the controller in the ref, 0 for null
  aborted,             \* the controllers whose signal is aborted
  calls,               \* the processMessage invocations
  nCalls,              \* how many of them were started
  nTurns,              \* how many turns were accepted
  user,                \* useAuth: a user is signed in
  guestUsed,           \* localStorage: guest queries used
  guestQueriesRemaining, \* ChatInterface
  showAuthModal,       \* ChatInterface
  cleared,             \* history: reset was pressed and nothing submitted since
  sanPc,      \* sanitizeInput: "call" before, "return" after
  sanIn,      \* its argument
  sanOut,     \* its result
  sPc,        \* search endpoint: "request" before, "response" after
  sBody,      \* the request body
  sStoreOk,   \* whether the store answers the query without an error
  sQuery,     \* the filters of the query sent to the store
  sResp,      \* the response
  showFavorites,   \* MapWrapper: the Favorites panel is open
  favoritePlaces,  \* FavoritesPanel: the ids it lists
  favLast,         \* history: the last change of the favorites and the list before it
  nFavOps,         \* how many changes of the favorites were made
  hoveredPlace,    \* RestaurantMap: id of the hovered place, 0 for none
  popupClosed,     \* history: the place whose popup was closed last, 0 for none
  sugPc,      \* suggestion endpoint: "request" before, "response" after
  sugBody,    \* the JSON value of the request body
  sugResp,    \* the response
  sugLog,     \* the suggestions recorded
  exPc,       \* extractJsonFromResponse: "call" before, "return" after
  exText,     \* its argument
  exOut,      \* its result
  rPc,        \* chat endpoint: the await POST is at, "done" after it answered
  rReq,       \* the request
  rCtx,       \* the locals of POST that live across its awaits
  rFailed,    \* history: what failed inside POST
  rResp,      \* the answer, or what was thrown to the caller
  rOuts,      \* history: what the completion calls of this request returned
  rSeen       \* history: the completions and the filter of an earlier answer

sanVars == <<sanPc, sanIn, sanOut>>

searchVars == <<sPc, sBody, sStoreOk, sQuery, sResp>>

mapVars ==
  <<places, placesWithRatings, ratingsCache, isFiltering, searchError,
    activeFilters, selectedPlace, searches, nSearches, favs>>

chatVars ==
  <<messages, loading, isRetrying, lastFilter, abortControllerRef, aborted,
    calls, nCalls, nTurns, user, guestUsed, guestQueriesRemaining, showAuthModal>>

histVars == <<cleared>>

uiVars == <<mapVars, chatVars, histVars>>

hoverVars == <<hoveredPlace, popupClosed>>

favVars == <<showFavorites, favoritePlaces, favLast, nFavOps, hoverVars>>

sugVars == <<sugPc, sugBody, sugResp, sugLog>>

exVars == <<exPc, exText, exOut>>

routeVars == <<rPc, rReq, rCtx, rFailed, rResp, rOuts, rSeen>>

apiVars == <<sugVars, exVars, routeVars>>

vars == <<uiVars, sanVars, searchVars, favVars, apiVars>>

\* ------------------------------------------------------------------------
\* sanitizeInput applied to bounded inputs
\* ------------------------------------------------------------------------
SanChars == {"a", " ", "\t", "%", "_", "'", "\"", "\\"}

RECURSIVE SeqsUpTo(_, _)
SeqsUpTo(S, n) ==
  IF n = 0 THEN {<< >>}
  ELSE LET shorter == SeqsUpTo(S, n - 1)
       IN  shorter \cup {Append(s, c) : s \in shorter, c \in S}

Pad(n) == [i \in 1..n |-> "a"]

\* lengths of the padding: none, and around the maximum length
PadLengths == {0} \cup ((MAX_SEARCH_LENGTH - MaxTail)..(MAX_SEARCH_LENGTH + MaxOver))

SanStrings ==
  {h \o Pad(n) \o t : h \in SeqsUpTo(SanChars, 1), n \in PadLengths,
                       t \in SeqsUpTo(SanChars, MaxTail)}

SanInputs ==
  {Str(s) : s \in SanStrings}
    \cup {Null, Undef, Num(0), Num(5), Bool(TRUE), Bool(FALSE), Arr(<< >>)}

SanIdle == sanPc = "idle" /\ sanIn = Undef /\ sanOut = Undef

InitSan ==
  /\ sanPc = "call"
  /\ sanIn \in SanInputs
  /\ sanOut = Undef

Sanitize ==
  /\ sanPc = "call"
  /\ sanPc' = "return"
  /\ sanOut' = sanitizeInput(sanIn)
  /\ UNCHANGED sanIn

\* ------------------------------------------------------------------------
\* The search endpoint applied to bounded filters
\* ------------------------------------------------------------------------
Absent == [t |-> "absent"]

\* the values each filter field is drawn from
FieldValues ==
  [ cuisine_subtype  |-> {Absent, Null, Str(<<" ">>), Str(<<"r", "a">>),
                          Str(<<"r", "%", "a">>)},
    cuisine_category |-> {Absent, Str(<< >>), Str(<<"i", "n">>)},
    keyword          |-> {Absent, Str(<<" ", " ">>), Str(<<"%">>),
                          Str(<<"t", "o">>), Str(<<"z">>)},
    tag              |-> {Absent, Str(<<"n", "a">>), Str(<<"n", "_", "a">>)},
    price_level      |-> {Absent, Str(<<"$">>), Num(2)},
    favorites        |-> {Absent, Null, Bool(TRUE), Bool(FALSE)},
    halal_status     |-> {Absent, Str(<<"C", "e">>)},
    search_terms     |-> {Absent, Arr(<< >>), Arr(<<Str(<<"s", "u">>)>>),
                          Arr(<<Str(<<"%">>), Str(<<"o", "s">>)>>)} ]

FilterFields == DOMAIN FieldValues

\* the object holding the keys that were given a value
MakeFilter(choice) ==
  [k \in {f \in FilterFields : choice[f] # Absent} |-> choice[k]]

FilterObjects ==
  {MakeFilter(ch) :
     ch \in [cuisine_subtype  : FieldValues.cuisine_subtype,
             cuisine_category : FieldValues.cuisine_category,
             keyword          : FieldValues.keyword,
             tag              : FieldValues.tag,
             price_level      : FieldValues.price_level,
             favorites        : FieldValues.favorites,
             halal_status     : FieldValues.halal_status,
             search_terms     : FieldValues.search_terms]}

SearchBodies ==
  {[filter |-> Obj(f)] : f \in FilterObjects}
    \cup {[filter |-> Undef], [filter |-> Null]}

SearchIdle ==
  /\ sPc = "idle"
  /\ sBody = [filter |-> Undef]
  /\ sStoreOk = TRUE
  /\ sQuery = << >>
  /\ sResp = Undef

InitSearch ==
  /\ sPc = "request"
  /\ sBody \in SearchBodies
  /\ sStoreOk \in BOOLEAN
  /\ sQuery = << >>
  /\ sResp = Undef

Search ==
  /\ sPc = "request"
  /\ sPc' = "response"
  /\ sQuery' = SearchQuery(sBody)
  /\ sResp' = POST(sBody, sStoreOk)
  /\ UNCHANGED <<sBody, sStoreOk>>

\* ------------------------------------------------------------------------
\* MapWrapper: handleFilter and fetchRatings
\* ------------------------------------------------------------------------
Calls == 1..MaxCalls

Searches == 1..MaxSearches

\* page.tsx: the rows with coordinates
initialPlaces ==
  LET hit == SelectSeq(PlacesTable, LAMBDA r : r.hasCoords)
  IN  [i \in 1..Len(hit) |-> hit[i].id]

Elems(seq) == {seq[i] : i \in 1..Len(seq)}

\* JavaScript truthiness
Truthy(v) ==
  CASE v.t = "bool" -> v.b
    [] v.t = "str"  -> v.s # << >>
    [] v.t = "num"  -> v.n # 0
    [] v.t \in {"null", "undefined"} -> FALSE
    [] OTHER -> TRUE

NoSearch == [pc |-> "none", body |-> [filter |-> Undef], sel |-> 0, list |-> << >>]

\* a finished invocation keeps nothing
DoneSearch == [NoSearch EXCEPT !.pc = "done"]

\* the branch of handleFilter that awaits the search endpoint
NeedsSearch(filter) ==
  DOMAIN filter # {} /\ ~Truthy(Get(filter, "favorites"))

\* handleFilter without its favorites branch
HandleFilterNoFavorites(filter, sel) ==
  IF DOMAIN filter = {}
  THEN /\ places' = initialPlaces
       /\ searchError' = "none"
       /\ UNCHANGED <<isFiltering, searches, nSearches>>
  ELSE /\ nSearches < MaxSearches
       /\ isFiltering' = TRUE
       /\ searchError' = "none"
       /\ nSearches' = nSearches + 1
       /\ searches' = [searches EXCEPT ![nSearches + 1] =
                         [pc |-> "pending", body |-> [filter |-> Obj(filter)],
                          sel |-> sel, list |-> << >>]]
       /\ UNCHANGED places

\* handleFilter up to its first await; sel is the selectedPlace the
\* closure holds
HandleFilter(filter, sel) ==
  IF DOMAIN filter = {}
  THEN /\ places' = initialPlaces
       /\ searchError' = "none"
       /\ UNCHANGED <<isFiltering, searches, nSearches>>
  ELSE IF Truthy(Get(filter, "favorites"))
  THEN /\ places' = SelectSeq(initialPlaces, LAMBDA id : id \in Elems(favs))
       /\ searchError' = "none"
       /\ UNCHANGED <<isFiltering, searches, nSearches>>
  ELSE /\ nSearches < MaxSearches
       /\ isFiltering' = TRUE
       /\ searchError' = "none"
       /\ nSearches' = nSearches + 1
       /\ searches' = [searches EXCEPT ![nSearches + 1] =
                         [pc |-> "pending", body |-> [filter |-> Obj(filter)],
                          sel |-> sel, list |-> << >>]]
       /\ UNCHANGED places

\* the displayed places after an answer that is handled as if it were ok
PlacesAfterSearchNoCheck(resp, cur) == resp.places

\* the displayed places after the answer of the search endpoint
PlacesAfterSearch(resp, cur) == IF resp.status = 200 THEN resp.places ELSE cur

\* the ids fetchRatings has to ask for
Uncached(list) == {id \in Elems(list) : Row(id).place_id /\ id \notin ratingsCache}

\* the search endpoint answers search s
SearchRespond(s, storeOk) ==
  LET resp == POST(searches[s].body, storeOk)
      list == Slice0(resp.places, MAX_DISPLAY_PLACES)
  IN  /\ searches[s].pc = "pending"
      /\ places' = PlacesAfterSearch(resp, places)
      /\ isFiltering' = FALSE
      /\ IF resp.status # 200
         THEN /\ searchError' = "failed"
              /\ searches' = [searches EXCEPT ![s] = DoneSearch]
              /\ UNCHANGED <<placesWithRatings, selectedPlace>>
         ELSE /\ selectedPlace' =
                   IF searches[s].sel # 0 /\ searches[s].sel \notin Elems(resp.places)
                   THEN 0 ELSE selectedPlace
              /\ IF Uncached(list) = {}
                 THEN /\ placesWithRatings' = list
                      /\ searches' = [searches EXCEPT ![s] = DoneSearch]
                 ELSE /\ searches' = [searches EXCEPT ![s].pc = "ratings",
                                                       ![s].list = list]
                      /\ UNCHANGED placesWithRatings
              /\ UNCHANGED searchError
      /\ UNCHANGED <<ratingsCache, activeFilters, nSearches, favs, chatVars,
                     cleared>>

\* fetch or res.json() of search s throws
SearchThrow(s) ==
  /\ searches[s].pc = "pending"
  /\ searchError' = "network"
  /\ isFiltering' = FALSE
  /\ searches' = [searches EXCEPT ![s] = DoneSearch]
  /\ UNCHANGED <<places, placesWithRatings, ratingsCache, activeFilters,
                 selectedPlace, nSearches, favs, chatVars, cleared>>

\* the ratings request of search s ends: with the ratings asked for, or
\* with none (not ok, or thrown)
RatingsRespond(s, ok) ==
  /\ searches[s].pc = "ratings"
  /\ ratingsCache' = IF ok THEN ratingsCache \cup Uncached(searches[s].list)
                     ELSE ratingsCache
  /\ placesWithRatings' = searches[s].list
  /\ searches' = [searches EXCEPT ![s] = DoneSearch]
  /\ UNCHANGED <<places, isFiltering, searchError, activeFilters,
                 selectedPlace, nSearches, favs, chatVars, cleared>>

\* ------------------------------------------------------------------------
\* FilterBar
\* ------------------------------------------------------------------------
\* the chips of the bar: key and value (strings abbreviated as in the table)
BarChips ==
  { [key |-> "cuisine_subtype", value |-> Str(<<"R", "a">>)] }

\* toggleFilter: drop the key when it holds the value, set it otherwise
toggleFilter(f, key, value) ==
  IF Get(f, key) = value
  THEN [k \in (DOMAIN f) \ {key} |-> f[k]]
  ELSE [k \in (DOMAIN f) \cup {key} |-> IF k = key THEN value ELSE f[k]]

\* onFilterChange of the bar: setActiveFilters(filter); handleFilter(filter)
BarFilterChange(filter) ==
  /\ activeFilters' = filter
  /\ HandleFilter(filter, selectedPlace)
  /\ UNCHANGED <<placesWithRatings, ratingsCache, selectedPlace, favs,
                 chatVars, cleared>>

\* the Clear button is shown while a filter of the bar is active
hasActiveFilters ==
  \E k \in DOMAIN activeFilters :
    activeFilters[k] \notin {Null, Undef, Str(<< >>)}

clearFilters == hasActiveFilters /\ BarFilterChange(EmptyObject)

\* ------------------------------------------------------------------------
\* ChatInterface
\* ------------------------------------------------------------------------
Msg(role, kind, showPlaces) ==
  [role |-> role, kind |-> kind, showPlaces |-> showPlaces]

NoCall ==
  [pc |-> "none", parent |-> 0, attempt |-> 0, stale |-> FALSE,
   timer |-> FALSE, age |-> 0, status |-> 0, waitMs |-> 0, waited |-> 0,
   sel |-> 0]

\* a finished invocation keeps nothing
DoneCall == [NoCall EXCEPT !.pc = "done"]

\* a request of call c is in flight
Pending(c) == calls[c].pc \in {"fetch", "body"}

\* a rejected fetch whose catch block has not run yet; it runs before any
\* other event
AbortPending == \E c \in Calls : Pending(c) /\ c \in aborted

\* abortControllerRef.current?.abort(): only the signal of a request in
\* flight has an effect
AbortRef ==
  IF abortControllerRef # 0 /\ Pending(abortControllerRef)
  THEN aborted \cup {abortControllerRef} ELSE aborted

\* the call and the invocations awaiting it
RECURSIVE Chain(_)
Chain(c) == IF calls[c].parent = 0 THEN {c} ELSE {c} \cup Chain(calls[c].parent)

\* the finally block of call c and of the invocations awaiting it
Finally(c) ==
  /\ calls' = [x \in Calls |-> IF x \in Chain(c) THEN DoneCall ELSE calls[x]]
  /\ aborted' = aborted \ Chain(c)
  /\ loading' = FALSE
  /\ isRetrying' = FALSE

\* the six fields the chat endpoint returns, all null
NullFilter ==
  [k \in {"cuisine_subtype", "cuisine_category", "price_level", "tag",
          "keyword", "favorites"} |-> Null]

\* the filters a chat answer may carry
ChatFilters ==
  { Undef,
    Obj([NullFilter EXCEPT !.keyword = Str(<<"o", "s">>)]),
    Obj([NullFilter EXCEPT !.favorites = Bool(TRUE)]),
    Obj([NullFilter EXCEPT !.favorites = Bool(TRUE),
                           !.keyword = Str(<<"a", "b">>)]),
    Obj([NullFilter EXCEPT !.favorites = Bool(FALSE)]) }

\* the retryAfter values of an answer; 0 stands for none
RetryAfters == {0, 20}

DefaultWaitSeconds == 10

\* the bodies of the answers of /api/chat
ChatBodies ==
  {[kind |-> "nonjson", retryAfter |-> 0, filter |-> Undef]}
    \cup {[kind |-> "bare", retryAfter |-> n, filter |-> Undef] : n \in RetryAfters}
    \cup {[kind |-> "reply", retryAfter |-> 0, filter |-> f] : f \in ChatFilters}

ChatStatuses == {200, 429, 500}

\* processMessage up to its first await: a new controller in the ref and
\* the timeout armed
StartCall(c, parent, attempt, stale, sel, base) ==
  /\ abortControllerRef' = c
  /\ calls' = [base EXCEPT ![c] =
                 [pc |-> "fetch", parent |-> parent, attempt |-> attempt,
                  stale |-> stale, timer |-> TRUE, age |-> 0, status |-> 0,
                  waitMs |-> 0, waited |-> 0, sel |-> sel]]
  /\ nCalls' = c

\* placesWithRatings.length > 0 ? placesWithRatings : places
sourcePlaces == IF Len(placesWithRatings) > 0 THEN placesWithRatings ELSE places

\* the currentPlaces of the request body: an entry for each of the first
\* MAX_DISPLAY_PLACES source places, identified here by its name
placesContext ==
  LET src == Slice0(sourcePlaces, MAX_DISPLAY_PLACES)
  IN  [i \in 1..Len(src) |-> Row(src[i]).name]

\* every invocation still running belongs to an earlier turn from now on
MarkStale == [x \in Calls |->
                IF calls[x].pc \in {"none", "done"} THEN calls[x]
                ELSE [calls[x] EXCEPT !.stale = TRUE]]

\* canMakeQuery without the quota
canMakeQueryAlways == TRUE

\* canMakeQuery: a user, or a guest with hasRemainingQueries()
canMakeQuery == user \/ guestUsed < MAX_FREE_QUERIES

Max0(n) == IF n < 0 THEN 0 ELSE n

\* the part handleSubmit and handleQuickQuestion share once the input is
\* accepted
Ask ==
  IF ~canMakeQuery
  THEN /\ Len(messages) + 2 <= MaxMsgs
       /\ messages' = messages \o << Msg("user", "user", FALSE),
                                     Msg("assistant", "quota", FALSE) >>
       /\ showAuthModal' = TRUE
       /\ UNCHANGED <<loading, isRetrying, lastFilter, abortControllerRef,
                      aborted, calls, nCalls, nTurns, user, guestUsed,
                      guestQueriesRemaining, cleared, mapVars>>
  ELSE /\ nCalls < MaxCalls
       /\ nTurns < MaxTurns
       /\ nTurns' = nTurns + 1
       /\ loading' = TRUE
       /\ guestUsed' = IF user THEN guestUsed ELSE guestUsed + 1
       /\ guestQueriesRemaining' =
            IF user THEN guestQueriesRemaining
            ELSE Max0(MAX_FREE_QUERIES - (guestUsed + 1))
       /\ messages' = Append(messages, Msg("user", "user", FALSE))
       /\ StartCall(nCalls + 1, 0, 1, FALSE, selectedPlace, MarkStale)
       /\ cleared' = FALSE
       /\ UNCHANGED <<isRetrying, lastFilter, aborted, user, showAuthModal,
                      mapVars>>

\* the texts of the input box
Inputs == {<< >>, <<" ">>, <<"q">>}

handleSubmit(input) ==
  /\ ~AbortPending
  /\ IF Trim(input) = << >> \/ loading \/ isRetrying
     THEN UNCHANGED <<mapVars, chatVars, cleared>>
     ELSE Ask

\* the quick questions are shown while the list is empty and enabled while
\* nothing is loading
handleQuickQuestion ==
  /\ ~AbortPending
  /\ Len(messages) = 0
  /\ ~loading /\ ~isRetrying
  /\ Ask

handleClear ==
  /\ ~AbortPending
  /\ aborted' = AbortRef
  /\ messages' = << >>
  /\ lastFilter' = EmptyObject
  /\ loading' = FALSE
  /\ isRetrying' = FALSE
  /\ HandleFilter(EmptyObject, selectedPlace)
  /\ calls' = MarkStale
  /\ cleared' = TRUE
  /\ UNCHANGED <<placesWithRatings, ratingsCache, activeFilters, selectedPlace,
                 favs, abortControllerRef, nCalls, nTurns, user, guestUsed,
                 guestQueriesRemaining, showAuthModal>>

\* the catch block for an error that is not an abort, then finally
ChatError(c) ==
  /\ messages' = Append(messages, Msg("assistant", "error", FALSE))
  /\ Finally(c)
  /\ UNCHANGED <<lastFilter, abortControllerRef, nCalls, nTurns, user,
                 guestUsed, guestQueriesRemaining, showAuthModal, mapVars,
                 cleared>>

\* fetch resolves with the status line of the answer: clearTimeout
FetchResolve(c, status) ==
  /\ ~AbortPending
  /\ calls[c].pc = "fetch"
  /\ calls' = [calls EXCEPT ![c].pc = "body", ![c].status = status,
                            ![c].timer = FALSE]
  /\ UNCHANGED <<messages, loading, isRetrying, lastFilter, abortControllerRef,
                 aborted, nCalls, nTurns, user, guestUsed, guestQueriesRemaining,
                 showAuthModal, mapVars, cleared>>

\* fetch rejects with a network error
FetchFail(c) ==
  /\ ~AbortPending
  /\ calls[c].pc = "fetch"
  /\ ChatError(c)

\* response.text() rejects with a network error
BodyFail(c) ==
  /\ ~AbortPending
  /\ calls[c].pc = "body"
  /\ ChatError(c)

\* the timeout callback: abortControllerRef.current?.abort()
TimerFire(c) ==
  /\ ~AbortPending
  /\ calls[c].timer
  /\ calls[c].age >= REQUEST_TIMEOUT
  /\ aborted' = AbortRef
  /\ calls' = [calls EXCEPT ![c].timer = FALSE]
  /\ UNCHANGED <<messages, loading, isRetrying, lastFilter, abortControllerRef,
                 nCalls, nTurns, user, guestUsed, guestQueriesRemaining, showAuthModal,
                 mapVars, cleared>>

\* the catch block for an AbortError, then finally
AbortCatch(c) ==
  /\ Pending(c)
  /\ c \in aborted
  /\ messages' = Append(messages, Msg("assistant", "timeout", FALSE))
  /\ Finally(c)
  /\ UNCHANGED <<lastFilter, abortControllerRef, nCalls, nTurns, user,
                 guestUsed, guestQueriesRemaining, showAuthModal, mapVars,
                 cleared>>

\* (data?.retryAfter as number) || 10, in milliseconds
WaitMs(body) ==
  (IF body.retryAfter # 0 THEN body.retryAfter ELSE DefaultWaitSeconds) * 1000

\* the 429 branch up to its await: the notice, isRetrying, the sleep
Sleep429(c, body) ==
  /\ messages' = Append(messages, Msg("assistant", "overloaded", FALSE))
  /\ isRetrying' = TRUE
  /\ calls' = [calls EXCEPT ![c].pc = "wait", ![c].waitMs = WaitMs(body),
                            ![c].waited = 0, ![c].age = 0, ![c].status = 0]
  /\ UNCHANGED <<loading, lastFilter, abortControllerRef, aborted, nCalls, nTurns,
                 user, guestUsed, guestQueriesRemaining, showAuthModal,
                 mapVars, cleared>>

\* the answer holds neither filter nor message
NoResponse(c) ==
  /\ messages' = Append(messages, Msg("assistant", "noresponse", FALSE))
  /\ Finally(c)
  /\ UNCHANGED <<lastFilter, abortControllerRef, nCalls, nTurns, user,
                 guestUsed, guestQueriesRemaining, showAuthModal, mapVars,
                 cleared>>

\* parsed.filter || {}
ParsedFilter(body) == IF body.filter.t = "obj" THEN body.filter.o ELSE EmptyObject

\* the answer is committed: the filter applied, the reply appended
Reply(c, body) ==
  LET filter == ParsedFilter(body)
      hasFilter == hasNonEmptyValues(filter)
  IN  /\ IF hasFilter
         THEN /\ HandleFilter(filter, calls[c].sel)
              /\ lastFilter' = filter
         ELSE UNCHANGED <<places, searchError, isFiltering, searches,
                          nSearches, lastFilter>>
      /\ messages' = Append(messages, Msg("assistant", "reply", hasFilter))
      /\ Finally(c)
      /\ UNCHANGED <<placesWithRatings, ratingsCache, activeFilters,
                     selectedPlace, favs, abortControllerRef, nCalls, nTurns,
                     user, guestUsed, guestQueriesRemaining, showAuthModal,
                     cleared>>

\* response.text() resolves: the rest of the try block
BodyRead(c, body) ==
  /\ ~AbortPending
  /\ calls[c].pc = "body"
  /\ IF body.kind = "nonjson" THEN ChatError(c)
     ELSE IF calls[c].status = 429 THEN Sleep429(c, body)
     ELSE IF calls[c].status # 200 THEN ChatError(c)
     ELSE IF body.kind = "bare" THEN NoResponse(c)
     ELSE Reply(c, body)

\* the sleep of the 429 branch is over: the notice and the recursive call
WaitDone(c) ==
  /\ ~AbortPending
  /\ calls[c].pc = "wait"
  /\ calls[c].waited >= calls[c].waitMs
  /\ nCalls < MaxCalls
  /\ isRetrying' = FALSE
  /\ messages' = Append(messages, Msg("assistant", "retrying", FALSE))
  /\ StartCall(nCalls + 1, c, calls[c].attempt + 1, calls[c].stale,
               calls[c].sel, [calls EXCEPT ![c].pc = "child"])
  /\ UNCHANGED <<loading, lastFilter, aborted, nTurns, user, guestUsed,
                 guestQueriesRemaining, showAuthModal, mapVars, cleared>>

AgeCap == REQUEST_TIMEOUT + TickMs

Min(a, b) == IF a < b THEN a ELSE b

\* time passes while something is waiting; a timer or a sleep that is due
\* runs first
Tick ==
  /\ ~AbortPending
  /\ \E c \in Calls : calls[c].pc \in {"fetch", "body", "wait"}
  /\ \A c \in Calls : calls[c].timer => calls[c].age < REQUEST_TIMEOUT
  /\ \A c \in Calls : calls[c].pc = "wait" => calls[c].waited < calls[c].waitMs
  /\ calls' = [c \in Calls |->
                 IF Pending(c)
                 THEN [calls[c] EXCEPT !.age = Min(@ + TickMs, AgeCap)]
                 ELSE IF calls[c].pc = "wait"
                 THEN [calls[c] EXCEPT !.waited = @ + TickMs]
                 ELSE calls[c]]
  /\ calls' # calls
  /\ UNCHANGED <<messages, loading, isRetrying, lastFilter, abortControllerRef,
                 aborted, nCalls, nTurns, user, guestUsed, guestQueriesRemaining,
                 showAuthModal, mapVars, cleared>>

\* the render of message m: m.showPlaces && !placesLoading, placesLoading
\* being the isFiltering of MapWrapper
shouldShowPlaces(m) == m.showPlaces /\ ~isFiltering

\* ------------------------------------------------------------------------
\* The application
\* ------------------------------------------------------------------------
\* the initial state of MapWrapper and ChatInterface but for the displayed
\* places and the two stored values
UiRest ==
  /\ placesWithRatings = << >>
  /\ ratingsCache = {}
  /\ isFiltering = FALSE
  /\ searchError = "none"
  /\ activeFilters = EmptyObject
  /\ selectedPlace = 0
  /\ searches = [s \in Searches |-> NoSearch]
  /\ nSearches = 0
  /\ messages = << >>
  /\ loading = FALSE
  /\ isRetrying = FALSE
  /\ lastFilter = EmptyObject
  /\ abortControllerRef = 0
  /\ aborted = {}
  /\ calls = [c \in Calls |-> NoCall]
  /\ nCalls = 0
  /\ nTurns = 0
  /\ user = FALSE
  /\ guestQueriesRemaining = Max0(MAX_FREE_QUERIES - guestUsed)
  /\ showAuthModal = FALSE
  /\ cleared = FALSE

UiInit ==
  /\ places = initialPlaces
  /\ favs = <<2>>
  /\ guestUsed \in (MAX_FREE_QUERIES - 2)..MAX_FREE_QUERIES
  /\ UiRest

\* ------------------------------------------------------------------------
\* The favorites: storage.ts, PlaceDetailSidebar, FavoritesPanel
\* ------------------------------------------------------------------------
NoDup(seq) == \A i, j \in 1..Len(seq) : seq[i] = seq[j] => i = j

\* favorites.add without the includes test
favoritesAddNoTest(current, placeId) == Append(current, placeId)

\* favorites.add
favoritesAdd(current, placeId) ==
  IF placeId \in Elems(current) THEN current ELSE Append(current, placeId)

\* favorites.remove
favoritesRemove(current, placeId) == SelectSeq(current, LAMBDA id : id # placeId)

\* favorites.toggle
favoritesToggle(current, placeId) ==
  IF placeId \in Elems(current)
  THEN favoritesRemove(current, placeId)
  ELSE favoritesAdd(current, placeId)

\* PlaceDetailSidebar.toggleFavorite on the stored list
toggleFavorite(current, placeId) ==
  IF placeId \in Elems(current)
  THEN SelectSeq(current, LAMBDA id : id # placeId)
  ELSE Append(current, placeId)

NoFavOp == [op |-> "none", id |-> 0, before |-> << >>]

HoverIdle == hoveredPlace = 0 /\ popupClosed = 0

FavIdle ==
  /\ showFavorites = FALSE
  /\ favoritePlaces = << >>
  /\ favLast = NoFavOp
  /\ nFavOps = 0
  /\ HoverIdle

SugIdle ==
  /\ sugPc = "idle"
  /\ sugBody = Undef
  /\ sugResp = Undef
  /\ sugLog = << >>

ExIdle == exPc = "idle" /\ exText = << >> /\ exOut = Undef

RouteIdle ==
  /\ rPc = "idle"
  /\ rReq = Undef
  /\ rCtx = Undef
  /\ rFailed = {}
  /\ rResp = Undef
  /\ rOuts = << >>
  /\ rSeen = Undef

ApiIdle == SugIdle /\ ExIdle /\ RouteIdle

\* what the actions of the favorites leave alone
favFrame ==
  <<placesWithRatings, ratingsCache, isFiltering, searchError, activeFilters,
    searches, nSearches, chatVars, cleared, sanVars, searchVars, apiVars,
    places, hoverVars>>

\* a change of the stored list for the place the sidebar shows
FavChange(op, after) ==
  /\ selectedPlace # 0
  /\ nFavOps < MaxFavOps
  /\ nFavOps' = nFavOps + 1
  /\ favs' = after
  /\ favLast' = [op |-> op, id |-> selectedPlace, before |-> favs]
  /\ UNCHANGED <<selectedPlace, showFavorites, favoritePlaces, favFrame>>

FavoritesAdd == FavChange("add", favoritesAdd(favs, selectedPlace))

FavoritesRemove == FavChange("remove", favoritesRemove(favs, selectedPlace))

FavoritesToggle == FavChange("toggle", favoritesToggle(favs, selectedPlace))

SidebarToggle == FavChange("toggle", toggleFavorite(favs, selectedPlace))

\* the first place of the list with the name, 0 for none
FindByName(list, name) ==
  LET hit == SelectSeq(list, LAMBDA id : Row(id).name = name)
  IN  IF hit = << >> THEN 0 ELSE Head(hit)

\* handleSelectPlaceByName, called with the name of a place of the snippet
handleSelectPlaceByName(placeName) ==
  LET place == IF FindByName(places, placeName) # 0
               THEN FindByName(places, placeName)
               ELSE FindByName(initialPlaces, placeName)
  IN  /\ selectedPlace' = IF place # 0 THEN place ELSE selectedPlace
      /\ selectedPlace' # selectedPlace
      /\ UNCHANGED <<favs, favVars, favFrame>>

\* a marker of the map is clicked: markers exist for places with coordinates
MarkerClick(id) ==
  /\ id \in Elems(places)
  /\ Row(id).hasCoords
  /\ selectedPlace' = id
  /\ selectedPlace' # selectedPlace
  /\ UNCHANGED <<favs, favVars, favFrame>>

\* the list FavoritesPanel computes when it is mounted
PanelList(panelPlaces) ==
  SelectSeq(panelPlaces, LAMBDA id : id \in Elems(favs))

\* onToggleFavorites of the floating menu; the panel is mounted with
\* places = initialPlaces when it opens
onToggleFavorites ==
  /\ showFavorites' = ~showFavorites
  /\ favoritePlaces' = IF showFavorites THEN << >> ELSE PanelList(initialPlaces)
  /\ UNCHANGED <<favs, selectedPlace, favLast, nFavOps, favFrame>>

\* the stored lists at the start: no duplicate, places of the map
FavStores == {st \in SeqsUpTo(Elems(initialPlaces), Len(initialPlaces)) : NoDup(st)}

\* the displayed places at the start: the initial ones, or the answer of a
\* search a chat answer led to
FavDisplays ==
  {initialPlaces} \cup
    {POST([filter |-> f], TRUE).places :
       f \in {g \in ChatFilters : g.t = "obj" /\ NeedsSearch(g.o)}}

FavInit ==
  /\ places \in FavDisplays
  /\ favs \in FavStores
  /\ guestUsed = MAX_FREE_QUERIES - 2
  /\ UiRest
  /\ FavIdle
  /\ SanIdle
  /\ SearchIdle
  /\ ApiIdle

FavNext ==
  \/ FavoritesAdd
  \/ FavoritesRemove
  \/ FavoritesToggle
  \/ SidebarToggle
  \/ \E id \in RowIds : handleSelectPlaceByName(Row(id).name)
  \/ \E id \in RowIds : MarkerClick(id)
  \/ onToggleFavorites

SpecFav == FavInit /\ [][FavNext]_vars

\* ------------------------------------------------------------------------
\* The map: hovering, selecting and the info popup
\* ------------------------------------------------------------------------
\* hoveredPlace || selectedPlace
activePlace == IF hoveredPlace # 0 THEN hoveredPlace ELSE selectedPlace

\* the InfoWindow is rendered
PopupShown == activePlace # 0 /\ Row(activePlace).hasCoords

\* what the handlers of the map leave alone
mapFrame ==
  <<favs, showFavorites, favoritePlaces, favLast, nFavOps, placesWithRatings,
    ratingsCache, isFiltering, searchError, activeFilters, searches, nSearches,
    chatVars, cleared, sanVars, searchVars, apiVars>>

\* onMouseEnter of a marker; markers exist for displayed places with
\* coordinates
MouseEnter(id) ==
  /\ id \in Elems(places)
  /\ Row(id).hasCoords
  /\ hoveredPlace # id
  /\ hoveredPlace' = id
  /\ UNCHANGED <<selectedPlace, popupClosed, places, mapFrame>>

\* onMouseLeave of the marker under the pointer
MouseLeave ==
  /\ hoveredPlace # 0
  /\ hoveredPlace' = 0
  /\ UNCHANGED <<selectedPlace, popupClosed, places, mapFrame>>

\* an onCloseClick that clears the hover only
PopupCloseHoverOnly ==
  /\ PopupShown
  /\ hoveredPlace' = 0
  /\ popupClosed' = activePlace
  /\ UNCHANGED <<selectedPlace, places, mapFrame>>

\* onCloseClick of the InfoWindow
PopupClose ==
  /\ PopupShown
  /\ hoveredPlace' = 0
  /\ selectedPlace' = IF selectedPlace = activePlace THEN 0 ELSE selectedPlace
  /\ popupClosed' = activePlace
  /\ UNCHANGED <<places, mapFrame>>

\* onViewDetails of the popup: onSelectPlace(activePlace)
ViewDetails ==
  /\ PopupShown
  /\ selectedPlace # activePlace
  /\ selectedPlace' = activePlace
  /\ UNCHANGED <<hoverVars, places, mapFrame>>

\* onClose of the sidebar: setSelectedPlace(null)
SidebarClose ==
  /\ selectedPlace # 0
  /\ selectedPlace' = 0
  /\ UNCHANGED <<hoverVars, places, mapFrame>>

MapInit == FavInit

MapNext ==
  \/ \E id \in RowIds : MouseEnter(id)
  \/ MouseLeave
  \/ PopupClose
  \/ ViewDetails
  \/ SidebarClose
  \/ \E id \in RowIds : MarkerClick(id)
  \/ \E id \in RowIds : handleSelectPlaceByName(Row(id).name)

SpecMap == MapInit /\ [][MapNext]_vars

UiFrame == UNCHANGED <<sanVars, searchVars, favVars, apiVars>>

Next ==
  \/ UiFrame /\ \E input \in Inputs : handleSubmit(input)
  \/ UiFrame /\ handleQuickQuestion
  \/ UiFrame /\ handleClear
  \/ UiFrame /\ \E c \in Calls : \E status \in ChatStatuses : FetchResolve(c, status)
  \/ UiFrame /\ \E c \in Calls : FetchFail(c)
  \/ UiFrame /\ \E c \in Calls : \E body \in ChatBodies : BodyRead(c, body)
  \/ UiFrame /\ \E c \in Calls : BodyFail(c)
  \/ UiFrame /\ \E c \in Calls : TimerFire(c)
  \/ UiFrame /\ \E c \in Calls : AbortCatch(c)
  \/ UiFrame /\ \E c \in Calls : WaitDone(c)
  \/ UiFrame /\ Tick
  \/ UiFrame /\ \E s \in Searches : \E storeOk \in BOOLEAN : SearchRespond(s, storeOk)
  \/ UiFrame /\ \E s \in Searches : SearchThrow(s)
  \/ UiFrame /\ \E s \in Searches : \E ok \in BOOLEAN : RatingsRespond(s, ok)
  \/ UiFrame /\ \E chip \in BarChips :
            BarFilterChange(toggleFilter(activeFilters, chip.key, chip.value))
  \/ UiFrame /\ clearFilters

Init == UiInit /\ SanIdle /\ SearchIdle /\ FavIdle /\ ApiIdle

Spec == Init /\ [][Next]_vars

UiIdleNoApi == UiInit /\ guestUsed = MAX_FREE_QUERIES - 2 /\ FavIdle

UiIdle == UiIdleNoApi /\ ApiIdle

SanInit == InitSan /\ SearchIdle /\ UiIdle

SanNext == Sanitize /\ UNCHANGED <<searchVars, uiVars, favVars, apiVars>>

SpecSan == SanInit /\ [][SanNext]_vars

SearchInit == InitSearch /\ SanIdle /\ UiIdle

SearchNext == Search /\ UNCHANGED <<sanVars, uiVars, favVars, apiVars>>

SpecSearch == SearchInit /\ [][SearchNext]_vars

\* ------------------------------------------------------------------------
\* The suggestion endpoint
\* ------------------------------------------------------------------------
\* the request fields, the columns they are recorded in and the length
\* each is cut to
SuggestFields ==
  <<[field |-> "name", column |-> "name", max |-> 200],
    [field |-> "address", column |-> "address", max |-> 500],
    [field |-> "city", column |-> "city", max |-> 100],
    [field |-> "cuisineType", column |-> "cuisine_type", max |-> 100],
    [field |-> "halalStatus", column |-> "halal_status", max |-> 100],
    [field |-> "phone", column |-> "phone", max |-> 50],
    [field |-> "website", column |-> "website", max |-> 500],
    [field |-> "notes", column |-> "notes", max |-> 1000],
    [field |-> "submitterEmail", column |-> "submitter_email", max |-> 200]>>

\* body.field of a parsed body; reading a property of null throws
Prop(body, k) == IF body.t = "obj" THEN Get(body.o, k) ELSE Undef

\* v?.trim() throws for a value that is neither nullish nor a string
TrimThrows(v) == v.t \notin {"undefined", "null", "str"}

\* v?.trim()
OptTrim(v) == IF IsStr(v) THEN Str(Trim(v.s)) ELSE Undef

\* !v?.trim()
Blank(v) == ~IsStr(OptTrim(v)) \/ OptTrim(v).s = << >>

\* v?.trim().slice(0, n) || null
Clip(v, n) ==
  IF Blank(v) THEN Null ELSE Str(Slice0(OptTrim(v).s, n))

\* the answer of the catch block
SuggestCaught ==
  [status |-> 500, error |-> "TypeError", success |-> FALSE, log |-> << >>]

SuggestRejected ==
  [status |-> 400, error |-> "Restaurant name and address are required.",
   success |-> FALSE, log |-> << >>]

\* the object that is logged; created_at, the time of the call, is left out
suggestionData(body) ==
  [i \in 1..Len(SuggestFields) |->
     Clip(Prop(body, SuggestFields[i].field), SuggestFields[i].max)]

\* the endpoint without the test of the required fields
SuggestPOSTNoValidation(body) ==
  IF body.t = "null" \/ \E i \in 1..Len(SuggestFields) :
                          TrimThrows(Prop(body, SuggestFields[i].field))
  THEN SuggestCaught
  ELSE [status |-> 200, error |-> "", success |-> TRUE,
        log |-> <<suggestionData(body)>>]

\* the endpoint: the response and what it logs
SuggestPOST(body) ==
  IF body.t = "null" THEN SuggestCaught
  ELSE IF TrimThrows(Prop(body, "name")) THEN SuggestCaught
  ELSE IF Blank(Prop(body, "name")) THEN SuggestRejected
  ELSE IF TrimThrows(Prop(body, "address")) THEN SuggestCaught
  ELSE IF Blank(Prop(body, "address")) THEN SuggestRejected
  ELSE SuggestPOSTNoValidation(body)

\* the request bodies: JSON null, a JSON number and objects whose fields are
\* absent, null, blank, padded, over the maximum or numbers
SuggestNames ==
  {Absent, Null, Num(5), Str(<< >>), Str(<<" ">>), Str(<<" ", "a", "\t">>),
   Str(<<" ">> \o Pad(201))}

SuggestAddresses ==
  {Absent, Num(5), Str(<<"\t">>), Str(<<"b", " ">>), Str(Pad(501))}

SuggestCities == {Absent, Null, Num(5), Str(<<" ">>), Str(<<" ", "c">>), Str(Pad(101))}

SuggestPhones == {Absent, Str(Pad(51))}

SuggestObject(n, a, c, ph) ==
  LET all == [name |-> n, address |-> a, city |-> c, phone |-> ph]
      present == {k \in DOMAIN all : all[k] # Absent}
  IN  Obj([k \in present |-> all[k]])

SuggestBodies ==
  {Null, Num(5)} \cup
  {SuggestObject(n, a, c, ph) :
     n \in SuggestNames, a \in SuggestAddresses, c \in SuggestCities,
     ph \in SuggestPhones}

InitSuggest ==
  /\ sugPc = "request"
  /\ sugBody \in SuggestBodies
  /\ sugResp = Undef
  /\ sugLog = << >>

Suggest ==
  /\ sugPc = "request"
  /\ sugPc' = "response"
  /\ sugResp' = [status |-> SuggestPOST(sugBody).status,
                 error |-> SuggestPOST(sugBody).error,
                 success |-> SuggestPOST(sugBody).success]
  /\ sugLog' = sugLog \o SuggestPOST(sugBody).log
  /\ UNCHANGED sugBody

SuggestInit == InitSuggest /\ ExIdle /\ RouteIdle /\ SanIdle /\ SearchIdle /\ UiIdleNoApi

SuggestNext ==
  Suggest /\ UNCHANGED <<sanVars, searchVars, uiVars, favVars, exVars, routeVars>>

SpecSuggest == SuggestInit /\ [][SuggestNext]_vars

\* ------------------------------------------------------------------------
\* The chat endpoint: JSON.parse and extractJsonFromResponse
\* ------------------------------------------------------------------------
\* the white space of JSON
JsonWs == {" ", "\t", "\n", "\r"}

\* s[i], or the empty string past the end
Ch(s, i) == IF i >= 1 /\ i <= Len(s) THEN s[i] ELSE ""

ParseFail == [ok |-> FALSE, pos |-> 0, val |-> Undef]

ParseOk(v, p) == [ok |-> TRUE, pos |-> p, val |-> v]

RECURSIVE SkipWs(_, _)
SkipWs(s, i) == IF Ch(s, i) \in JsonWs THEN SkipWs(s, i + 1) ELSE i

\* the index of the quote that closes a string whose content starts at i, 0
\* if there is none; control characters are not allowed in a string and
\* escape sequences are not modelled (no input holds a backslash)
RECURSIVE StringEnd(_, _)
StringEnd(s, i) ==
  IF i > Len(s) \/ s[i] \in {"\\", "\t", "\n", "\r"} THEN 0
  ELSE IF s[i] = "\"" THEN i
  ELSE StringEnd(s, i + 1)

ParseString(s, i) ==
  LET e == StringEnd(s, i + 1)
  IN  IF e = 0 THEN ParseFail ELSE ParseOk(Str(SubSeq(s, i + 1, e - 1)), e + 1)

\* the word w stands at i
Match(s, i, w) == i + Len(w) - 1 <= Len(s) /\ SubSeq(s, i, i + Len(w) - 1) = w

IsDigit(c) == \E k \in 1..Len(Digits) : Digits[k] = c

DigitVal(c) == (CHOOSE k \in 1..Len(Digits) : Digits[k] = c) - 1

RECURSIVE DigitsEnd(_, _)
DigitsEnd(s, i) == IF IsDigit(Ch(s, i)) THEN DigitsEnd(s, i + 1) ELSE i

RECURSIVE DigitsVal(_)
DigitsVal(d) ==
  IF d = << >> THEN 0
  ELSE 10 * DigitsVal(SubSeq(d, 1, Len(d) - 1)) + DigitVal(d[Len(d)])

\* a number: the non-negative integers without a leading zero (no input
\* holds a sign, a fraction or an exponent)
ParseNumber(s, i) ==
  LET e == DigitsEnd(s, i)
  IN  IF s[i] = "0" /\ e > i + 1 THEN ParseFail
      ELSE IF Ch(s, e) \in {".", "e", "E"} THEN ParseFail
      ELSE ParseOk(Num(DigitsVal(SubSeq(s, i, e - 1))), e)

\* the object of a list of members; a later member replaces an earlier one
\* of the same key
ObjectOf(members) ==
  LET keys == {members[n].k : n \in 1..Len(members)}
      last(k) == CHOOSE n \in 1..Len(members) :
                   /\ members[n].k = k
                   /\ \A m \in (n + 1)..Len(members) : members[m].k # k
  IN  Obj([k \in keys |-> members[last(k)].v])

RECURSIVE ParseValue(_, _)
RECURSIVE ParseElems(_, _, _)
RECURSIVE ParseMembers(_, _, _)

\* the elements of an array after its [ or a comma
ParseElems(s, i, acc) ==
  LET r == ParseValue(s, i)
      j == SkipWs(s, r.pos)
  IN  IF ~r.ok THEN ParseFail
      ELSE IF Ch(s, j) = "," THEN ParseElems(s, j + 1, Append(acc, r.val))
      ELSE IF Ch(s, j) = "]" THEN ParseOk(Arr(Append(acc, r.val)), j + 1)
      ELSE ParseFail

\* the members of an object after its { or a comma
ParseMembers(s, i, acc) ==
  LET j == SkipWs(s, i)
      key == ParseString(s, j)
      c == SkipWs(s, key.pos)
      r == ParseValue(s, c + 1)
      e == SkipWs(s, r.pos)
      all == Append(acc, [k |-> key.val.s, v |-> r.val])
  IN  IF Ch(s, j) # "\"" \/ ~key.ok THEN ParseFail
      ELSE IF Ch(s, c) # ":" THEN ParseFail
      ELSE IF ~r.ok THEN ParseFail
      ELSE IF Ch(s, e) = "," THEN ParseMembers(s, e + 1, all)
      ELSE IF Ch(s, e) = "}" THEN ParseOk(ObjectOf(all), e + 1)
      ELSE ParseFail

\* a JSON value that starts at or after i
ParseValue(s, i) ==
  LET j == SkipWs(s, i)
      c == Ch(s, j)
  IN  IF c = "{"
      THEN IF Ch(s, SkipWs(s, j + 1)) = "}"
           THEN ParseOk(Obj(EmptyObject), SkipWs(s, j + 1) + 1)
           ELSE ParseMembers(s, j + 1, << >>)
      ELSE IF c = "["
      THEN IF Ch(s, SkipWs(s, j + 1)) = "]"
           THEN ParseOk(Arr(<< >>), SkipWs(s, j + 1) + 1)
           ELSE ParseElems(s, j + 1, << >>)
      ELSE IF c = "\"" THEN ParseString(s, j)
      ELSE IF IsDigit(c) THEN ParseNumber(s, j)
      ELSE IF Match(s, j, <<"t", "r", "u", "e">>) THEN ParseOk(Bool(TRUE), j + 4)
      ELSE IF Match(s, j, <<"f", "a", "l", "s", "e">>) THEN ParseOk(Bool(FALSE), j + 5)
      ELSE IF Match(s, j, <<"n", "u", "l", "l">>) THEN ParseOk(Null, j + 4)
      ELSE ParseFail

\* JSON.parse: the value, or a failure where JSON.parse throws
JsonParse(s) ==
  LET r == ParseValue(s, 1)
  IN  IF r.ok /\ SkipWs(s, r.pos) = Len(s) + 1 THEN r ELSE ParseFail

\* typeof v === "object" && v !== null
IsObject(v) == v.t \in {"obj", "arr"}

K_filter == <<"f", "i", "l", "t", "e", "r">>

K_message == <<"m", "e", "s", "s", "a", "g", "e">>

\* "filter" in obj || "message" in obj
HasAnswerKey(v) == v.t = "obj" /\ (K_filter \in DOMAIN v.o \/ K_message \in DOMAIN v.o)

\* the inner loop: the first index from j on where the depth is back at 0,
\* or 0 if the text ends before
RECURSIVE CloseAt(_, _, _)
CloseAt(s, j, depth) ==
  IF j > Len(s) THEN 0
  ELSE LET d == IF s[j] = "{" THEN depth + 1
                ELSE IF s[j] = "}" THEN depth - 1
                ELSE depth
       IN  IF d = 0 THEN j ELSE CloseAt(s, j + 1, d)

\* the outer loop: the objects found from i on, after those in acc
RECURSIVE ScanObjects(_, _, _)
ScanObjects(s, i, acc) ==
  IF i > Len(s) THEN acc
  ELSE IF s[i] # "{" THEN ScanObjects(s, i + 1, acc)
  ELSE LET j == CloseAt(s, i, 0)
           parsed == JsonParse(SubSeq(s, i, j))
       IN  IF j = 0 THEN ScanObjects(s, i + 1, acc)
           ELSE IF parsed.ok /\ IsObject(parsed.val)
           THEN ScanObjects(s, j + 1, Append(acc, parsed.val))
           ELSE ScanObjects(s, j + 1, acc)

\* the last object with an answer key, the last object, or null
PickAnswer(jsonObjects) ==
  LET with == {n \in 1..Len(jsonObjects) : HasAnswerKey(jsonObjects[n])}
  IN  IF with # {} THEN jsonObjects[CHOOSE n \in with : \A m \in with : m <= n]
      ELSE IF jsonObjects # << >> THEN jsonObjects[Len(jsonObjects)]
      ELSE Null

extractJsonFromResponse(text) ==
  LET s == Trim(text)
      whole == JsonParse(s)
  IN  IF s = << >> THEN Null
      ELSE IF whole.ok /\ IsObject(whole.val) THEN whole.val
      ELSE PickAnswer(ScanObjects(s, 1, << >>))

\* the pieces the texts of the model are put together from: prose, lone
\* braces, objects with and without an answer key, a brace inside a string
\* value, a fragment in braces that is no JSON
ExPieces ==
  {<<"o", "k", " ">>,
   <<"{">>,
   <<"}">>,
   <<" ">>,
   <<"{", "\"", "m", "e", "s", "s", "a", "g", "e", "\"", ":", "\"", "a", "\"", "}">>,
   <<"{", "\"", "m", "e", "s", "s", "a", "g", "e", "\"", ":", "\"", "}", "\"", "}">>,
   <<"{", "\"", "f", "i", "l", "t", "e", "r", "\"", ":", "{", "}", "}">>,
   <<"{", "\"", "x", "\"", ":", "1", "}">>,
   <<"{", "x", "}">>}

MaxPieces == 3

RECURSIVE Joined(_)
Joined(n) ==
  IF n = 0 THEN {<< >>}
  ELSE Joined(n - 1) \cup {t \o p : t \in Joined(n - 1), p \in ExPieces}

ExTexts == Joined(MaxPieces)

InitExtract ==
  /\ exPc = "call"
  /\ exText \in ExTexts
  /\ exOut = Undef

Extract ==
  /\ exPc = "call"
  /\ exPc' = "return"
  /\ exOut' = extractJsonFromResponse(exText)
  /\ UNCHANGED exText

ExtractInit == InitExtract /\ SugIdle /\ RouteIdle /\ SanIdle /\ SearchIdle /\ UiIdleNoApi

ExtractNext ==
  Extract /\ UNCHANGED <<sanVars, searchVars, uiVars, favVars, sugVars, routeVars>>

SpecExtract == ExtractInit /\ [][ExtractNext]_vars

\* ------------------------------------------------------------------------
\* The chat endpoint: buildResponse
\* ------------------------------------------------------------------------
emptyFilter == NullFilter

\* a || b
Or(a, b) == IF Truthy(a) THEN a ELSE b

\* msg.includes(key)
Includes(msg, key) ==
  \E i \in 0..(Len(msg) - Len(key)) : SubSeq(msg, i + 1, i + Len(key)) = key

UpperChar(c) ==
  IF \E i \in 1..Len(LowerCase) : LowerCase[i] = c
  THEN UpperCase[CHOOSE i \in 1..Len(LowerCase) : LowerCase[i] = c]
  ELSE c

cuisineMap ==
  <<[key |-> <<"y", "a", "k", "i", "n", "i", "k", "u">>,
      value |-> <<"Y", "a", "k", "i", "n", "i", "k", "u">>],
    [key |-> <<"g", "y", "u", "d", "o", "n">>,
      value |-> <<"G", "y", "u", "d", "o", "n">>],
    [key |-> <<"t", "e", "m", "p", "u", "r", "a">>,
      value |-> <<"T", "e", "m", "p", "u", "r", "a">>],
    [key |-> <<"u", "d", "o", "n">>,
      value |-> <<"U", "d", "o", "n">>],
    [key |-> <<"s", "o", "b", "a">>,
      value |-> <<"S", "o", "b", "a">>],
    [key |-> <<"r", "a", "m", "e", "n">>,
      value |-> <<"R", "a", "m", "e", "n">>],
    [key |-> <<"s", "u", "s", "h", "i">>,
      value |-> <<"S", "u", "s", "h", "i">>],
    [key |-> <<"i", "n", "d", "i", "a", "n">>,
      value |-> <<"I", "n", "d", "i", "a", "n">>],
    [key |-> <<"p", "a", "k", "i", "s", "t", "a", "n", "i">>,
      value |-> <<"P", "a", "k", "i", "s", "t", "a", "n", "i">>],
    [key |-> <<"t", "u", "r", "k", "i", "s", "h">>,
      value |-> <<"T", "u", "r", "k", "i", "s", "h">>],
    [key |-> <<"k", "e", "b", "a", "b">>,
      value |-> <<"K", "e", "b", "a", "b">>],
    [key |-> <<"c", "u", "r", "r", "y">>,
      value |-> <<"C", "u", "r", "r", "y">>],
    [key |-> <<"c", "h", "i", "n", "e", "s", "e">>,
      value |-> <<"C", "h", "i", "n", "e", "s", "e">>],
    [key |-> <<"k", "o", "r", "e", "a", "n">>,
      value |-> <<"K", "o", "r", "e", "a", "n">>],
    [key |-> <<"t", "h", "a", "i">>,
      value |-> <<"T", "h", "a", "i">>],
    [key |-> <<"v", "i", "e", "t", "n", "a", "m", "e", "s", "e">>,
      value |-> <<"V", "i", "e", "t", "n", "a", "m", "e", "s", "e">>],
    [key |-> <<"i", "n", "d", "o", "n", "e", "s", "i", "a", "n">>,
      value |-> <<"I", "n", "d", "o", "n", "e", "s", "i", "a", "n">>],
    [key |-> <<"m", "a", "l", "a", "y", "s", "i", "a", "n">>,
      value |-> <<"M", "a", "l", "a", "y", "s", "i", "a", "n">>],
    [key |-> <<"m", "i", "d", "d", "l", "e", " ", "e", "a", "s", "t", "e", "r", "n">>,
      value |-> <<"M", "i", "d", "d", "l", "e", " ", "E", "a", "s", "t", "e", "r", "n">>],
    [key |-> <<"m", "e", "d", "i", "t", "e", "r", "r", "a", "n", "e", "a", "n">>,
      value |-> <<"M", "e", "d", "i", "t", "e", "r", "r", "a", "n", "e", "a", "n">>],
    [key |-> <<"b", "u", "r", "g", "e", "r">>,
      value |-> <<"B", "u", "r", "g", "e", "r">>],
    [key |-> <<"p", "i", "z", "z", "a">>,
      value |-> <<"P", "i", "z", "z", "a">>],
    [key |-> <<"c", "h", "i", "c", "k", "e", "n">>,
      value |-> <<"C", "h", "i", "c", "k", "e", "n">>],
    [key |-> <<"s", "e", "a", "f", "o", "o", "d">>,
      value |-> <<"S", "e", "a", "f", "o", "o", "d">>],
    [key |-> <<"v", "e", "g", "e", "t", "a", "r", "i", "a", "n">>,
      value |-> <<"V", "e", "g", "e", "t", "a", "r", "i", "a", "n">>],
    [key |-> <<"v", "e", "g", "a", "n">>,
      value |-> <<"V", "e", "g", "a", "n">>]>>

locations ==
  <<<<"s", "h", "i", "n", "j", "u", "k", "u">>,
    <<"s", "h", "i", "b", "u", "y", "a">>,
    <<"t", "o", "k", "y", "o">>,
    <<"o", "s", "a", "k", "a">>,
    <<"k", "y", "o", "t", "o">>,
    <<"a", "s", "a", "k", "u", "s", "a">>,
    <<"g", "i", "n", "z", "a">>,
    <<"a", "k", "i", "h", "a", "b", "a", "r", "a">>,
    <<"h", "a", "r", "a", "j", "u", "k", "u">>,
    <<"i", "k", "e", "b", "u", "k", "u", "r", "o">>,
    <<"u", "e", "n", "o">>,
    <<"r", "o", "p", "p", "o", "n", "g", "i">>,
    <<"s", "h", "i", "n", "a", "g", "a", "w", "a">>,
    <<"e", "b", "i", "s", "u">>,
    <<"m", "e", "g", "u", "r", "o">>,
    <<"n", "a", "k", "a", "n", "o">>,
    <<"k", "i", "c", "h", "i", "j", "o", "j", "i">>,
    <<"y", "o", "k", "o", "h", "a", "m", "a">>,
    <<"k", "o", "b", "e">>,
    <<"n", "a", "r", "a">>,
    <<"h", "i", "r", "o", "s", "h", "i", "m", "a">>,
    <<"f", "u", "k", "u", "o", "k", "a">>,
    <<"s", "a", "p", "p", "o", "r", "o">>,
    <<"n", "a", "g", "o", "y", "a">>,
    <<"s", "e", "n", "d", "a", "i">>,
    <<"k", "a", "n", "a", "z", "a", "w", "a">>,
    <<"o", "k", "i", "n", "a", "w", "a">>>>

\* the index of the first entry of keys that msg includes, 0 if there is none
FirstIncluded(msg, keys) ==
  IF \E n \in 1..Len(keys) : Includes(msg, keys[n])
  THEN CHOOSE n \in 1..Len(keys) :
         /\ Includes(msg, keys[n])
         /\ \A m \in 1..(n - 1) : ~Includes(msg, keys[m])
  ELSE 0

\* the price level the words of msg stand for, undefined if none does
InferredPrice(msg) ==
  IF \E w \in {<<"c", "h", "e", "a", "p">>, <<"b", "u", "d", "g", "e", "t">>,
               <<"a", "f", "f", "o", "r", "d", "a", "b", "l", "e">>,
               <<"i", "n", "e", "x", "p", "e", "n", "s", "i", "v", "e">>} : Includes(msg, w)
  THEN Str(<<"B", "u", "d", "g", "e", "t">>)
  ELSE IF \E w \in {<<"e", "x", "p", "e", "n", "s", "i", "v", "e">>, <<"f", "a", "n", "c", "y">>,
                    <<"f", "i", "n", "e", " ", "d", "i", "n", "i", "n", "g">>,
                    <<"u", "p", "s", "c", "a", "l", "e">>} : Includes(msg, w)
  THEN Str(<<"F", "i", "n", "e", " ", "D", "i", "n", "i", "n", "g">>)
  ELSE IF \E w \in {<<"m", "i", "d", "-", "r", "a", "n", "g", "e">>,
                    <<"m", "o", "d", "e", "r", "a", "t", "e">>} : Includes(msg, w)
  THEN Str(<<"M", "i", "d", "-", "r", "a", "n", "g", "e">>)
  ELSE Undef

\* an inference that leaves the location out once the places query failed
inferFilterUnlessFailed(userMessage) ==
  LET msg == LowerStr(userMessage)
      c == FirstIncluded(msg, [n \in 1..Len(cuisineMap) |-> cuisineMap[n].key])
      l == FirstIncluded(msg, locations)
      all == [cuisine_subtype |-> IF c = 0 THEN Undef ELSE Str(cuisineMap[c].value),
              keyword |-> IF l = 0 \/ "db" \in rFailed THEN Undef
                          ELSE Str(<<UpperChar(locations[l][1])>> \o Tail(locations[l])),
              price_level |-> InferredPrice(msg)]
  IN  [k \in {f \in DOMAIN all : all[f] # Undef} |-> all[k]]

\* the object inferFilterFromMessage returns: only the fields it sets
inferFilterFromMessage(userMessage) ==
  LET msg == LowerStr(userMessage)
      c == FirstIncluded(msg, [n \in 1..Len(cuisineMap) |-> cuisineMap[n].key])
      l == FirstIncluded(msg, locations)
      all == [cuisine_subtype |-> IF c = 0 THEN Undef ELSE Str(cuisineMap[c].value),
              keyword |-> IF l = 0 THEN Undef
                          ELSE Str(<<UpperChar(locations[l][1])>> \o Tail(locations[l])),
              price_level |-> InferredPrice(msg)]
  IN  [k \in {f \in DOMAIN all : all[f] # Undef} |-> all[k]]

thinkingIndicators ==
  <<<<"t", "h", "e", " ", "u", "s", "e", "r", " ", "s", "a", "y", "s">>,
    <<"t", "h", "e", " ", "u", "s", "e", "r", " ", "w", "a", "n", "t", "s">>,
    <<"t", "h", "e", " ", "u", "s", "e", "r", " ", "i", "s", " ", "a", "s", "k", "i", "n", "g">>,
    <<"t", "h", "e", "y", " ", "w", "a", "n", "t">>,
    <<"w", "e", " ", "n", "e", "e", "d", " ", "t", "o">>,
    <<"i", " ", "n", "e", "e", "d", " ", "t", "o">>,
    <<"i", " ", "s", "h", "o", "u", "l", "d">>,
    <<"l", "e", "t", " ", "m", "e">>,
    <<"l", "e", "t", "'", "s">>,
    <<"s", "i", "n", "c", "e", " ", "w", "e">>,
    <<"s", "i", "n", "c", "e", " ", "t", "h", "e">>,
    <<"t", "h", "e", " ", "t", "o", "o", "l">>,
    <<"q", "u", "e", "r", "y", "t", "y", "p", "e">>,
    <<"q", "u", "e", "r", "y", "d", "a", "t", "a", "b", "a", "s", "e">>,
    <<"f", "i", "l", "t", "e", "r", " ", "b", "y">>,
    <<"w", "e", " ", "c", "a", "n", " ", "q", "u", "e", "r", "y">>,
    <<"w", "e", " ", "c", "o", "u", "l", "d">>,
    <<"w", "e", " ", "m", "i", "g", "h", "t">>,
    <<"t", "h", "e", " ", "q", "u", "e", "r", "y">>,
    <<"s", "o", " ", "w", "e">>,
    <<"b", "u", "t", " ", "w", "e">>,
    <<"h", "o", "w", "e", "v", "e", "r">>,
    <<"t", "h", "e", "r", "e", "f", "o", "r", "e">>,
    <<"t", "h", "i", "s", " ", "m", "e", "a", "n", "s">>,
    <<"i", "n", " ", "o", "r", "d", "e", "r", " ", "t", "o">>,
    <<"t", "o", " ", "f", "i", "n", "d">>,
    <<"t", "o", " ", "g", "e", "t">>,
    <<"t", "o", " ", "s", "e", "a", "r", "c", "h">>,
    <<"h", "a", "l", "l", "u", "c", "i", "n", "a", "t", "e">>,
    <<"m", "u", "s", "t", " ", "n", "o", "t">>,
    <<"c", "a", "n", "n", "o", "t", " ", "f", "i", "l", "t", "e", "r">>>>

isThinkingText(text) ==
  IF Len(text) < 10 THEN FALSE
  ELSE \E n \in 1..Len(thinkingIndicators) :
         Includes(LowerStr(Trim(text)), thinkingIndicators[n])

\* the message generateMessage formats: count is undefined for "Here are"
\* and the number for "Found n", parts are the words of the description
generateMessage(filter, placesCount) ==
  [kind |-> "generated",
   count |-> placesCount,
   parts |->
     (IF Truthy(filter.cuisine_subtype)
      THEN <<LowerStr(filter.cuisine_subtype.s)>> ELSE << >>) \o
     (IF Truthy(filter.keyword)
      THEN <<<<"i", "n", " ">> \o filter.keyword.s>> ELSE << >>) \o
     (IF filter.price_level = Str(<<"B", "u", "d", "g", "e", "t">>)
      THEN <<<<"(", "b", "u", "d", "g", "e", "t", "-", "f", "r", "i", "e", "n", "d", "l", "y", ")">>>>
      ELSE IF filter.price_level = Str(<<"F", "i", "n", "e", " ", "D", "i", "n", "i", "n", "g">>)
      THEN <<<<"(", "f", "i", "n", "e", " ", "d", "i", "n", "i", "n", "g", ")">>>>
      ELSE << >>)]

\* a message taken from the text of the model
ModelMessage(text) == [kind |-> "model", text |-> text]

\* one of the fixed messages of the route
FixedMessage(which) == [kind |-> "fixed", text |-> which]

\* { ...a, ...b }
Spread(a, b) == [k \in DOMAIN a \cup DOMAIN b |-> IF k \in DOMAIN b THEN b[k] ELSE a[k]]

\* typeof v === "string" ? v : null
StringOrNull(v) == IF IsStr(v) THEN v ELSE Null

K_cuisine_subtype == <<"c", "u", "i", "s", "i", "n", "e", "_", "s", "u", "b", "t", "y", "p", "e">>

K_cuisine_category == <<"c", "u", "i", "s", "i", "n", "e", "_", "c", "a", "t", "e", "g", "o", "r", "y">>

K_price_level == <<"p", "r", "i", "c", "e", "_", "l", "e", "v", "e", "l">>

K_tag == <<"t", "a", "g">>

K_keyword == <<"k", "e", "y", "w", "o", "r", "d">>

K_favorites == <<"f", "a", "v", "o", "r", "i", "t", "e", "s">>

K_cuisine == <<"c", "u", "i", "s", "i", "n", "e">>

\* the filter of buildResponse for a filter object pf of the model
MergedFilter(pf, inferredFilter) ==
  [cuisine_subtype |-> Or(Or(StringOrNull(Prop(pf, K_cuisine_subtype)),
                             Get(inferredFilter, "cuisine_subtype")), Null),
   cuisine_category |-> Or(Or(StringOrNull(Prop(pf, K_cuisine_category)),
                              Get(inferredFilter, "cuisine_category")), Null),
   price_level |-> Or(Or(StringOrNull(Prop(pf, K_price_level)),
                         Get(inferredFilter, "price_level")), Null),
   tag |-> Or(StringOrNull(Prop(pf, K_tag)), Null),
   keyword |-> Or(Or(StringOrNull(Prop(pf, K_keyword)),
                     Get(inferredFilter, "keyword")), Null),
   favorites |-> IF Prop(pf, K_favorites).t = "bool"
                 THEN Prop(pf, K_favorites) ELSE Null]

\* places.slice(0, 10).map(...) of buildResponse
ResponsePlaces(rows) ==
  [i \in 1..Len(Limit(rows, MAX_DISPLAY_PLACES)) |->
     [name |-> JsString(Or(Row(rows[i]).name, Str(<<"U", "n", "k", "n", "o", "w", "n">>))),
      cuisine |-> JsString(Or(Or(Row(rows[i]).cuisine_subtype,
                                 Row(rows[i]).cuisine_category),
                              Str(<<"H", "a", "l", "a", "l">>)))]]

\* buildResponse; parsed is null or what the extractor returned, found is
\* undefined or the array of the ids of the rows; the places key of the
\* result is undefined when the key is not set
buildResponse(parsed, userMessage, found) ==
  LET inferredFilter == inferFilterFromMessage(userMessage)
      pf == Prop(parsed, K_filter)
      filter == IF IsObject(parsed) /\ IsObject(pf)
                THEN MergedFilter(pf, inferredFilter)
                ELSE Spread(emptyFilter, inferredFilter)
      pm == Prop(parsed, K_message)
      message == IF IsObject(parsed) /\ IsStr(pm) /\ Len(pm.s) > 0
                    /\ ~isThinkingText(pm.s)
                 THEN ModelMessage(pm.s)
                 ELSE generateMessage(filter,
                                      IF found.t = "arr" THEN Num(Len(found.a))
                                      ELSE Undef)
  IN  [filter |-> filter,
       message |-> message,
       places |-> IF found.t = "arr" /\ Len(found.a) > 0
                  THEN Arr(ResponsePlaces(found.a)) ELSE Undef]

\* ------------------------------------------------------------------------
\* The chat endpoint: POST
\* ------------------------------------------------------------------------
ChatQueryLimit == 20

\* the filters POST chains on the places table for a cuisine and a keyword
ChatQuery(cuisine, keyword) ==
  (IF Truthy(cuisine)
   THEN <<[kind |-> "ilike", conds |-> <<Cond("cuisine_subtype", JsString(cuisine))>>]>>
   ELSE << >>) \o
  (IF Truthy(keyword)
   THEN <<[kind |-> "or", conds |-> <<Cond("name", JsString(keyword)),
                                      Cond("address", JsString(keyword)),
                                      Cond("city", JsString(keyword))>>]>>
   ELSE << >>)

\* what await query.limit(20) leaves in data: the rows, or null on an error
ChatData(cuisine, keyword, storeOk) ==
  IF storeOk THEN Arr(Limit(ExecQuery(ChatQuery(cuisine, keyword)), ChatQueryLimit))
  ELSE Null

\* data || undefined
DataOrUndefined(data) == IF data.t = "arr" THEN data ELSE Undef

\* normalizeContent
normalizeContent(content) ==
  IF IsStr(content) THEN content.s
  ELSE IF content.t \in {"null", "undefined"} THEN << >>
  ELSE JsString(content)

\* the content of the last message of role user, "" if there is none
LastUserText(msgs) ==
  LET users == {n \in 1..Len(msgs) : msgs[n].o.role = "user"}
  IN  IF users = {} THEN << >>
      ELSE normalizeContent(msgs[CHOOSE n \in users : \A m \in users : m <= n].o.content)

\* an exception leaves POST
Thrown == [kind |-> "thrown", role |-> "", content |-> Undef]

JsonAnswer(content) == [kind |-> "json", role |-> "assistant", content |-> content]

\* the answer of the catch block
CatchAnswer ==
  JsonAnswer([filter |-> emptyFilter,
              message |-> FixedMessage("Sorry, something went wrong. Please try again!"),
              places |-> Undef])

GreetingAnswer ==
  JsonAnswer([filter |-> emptyFilter,
              message |-> FixedMessage("Assalamualaikum! Ask me about halal food in Japan!"),
              places |-> Undef])

\* POST answers
Answer(resp, failed) ==
  /\ rPc' = "done"
  /\ rResp' = resp
  /\ rFailed' = rFailed \cup failed
  /\ UNCHANGED <<rReq, rCtx>>

\* POST goes on to its next await
Await(pc, ctx, failed) ==
  /\ rPc' = pc
  /\ rCtx' = ctx
  /\ rFailed' = rFailed \cup failed
  /\ UNCHANGED <<rReq, rResp>>

\* the body is read and the first completion is requested
Receive ==
  /\ rPc = "request"
  /\ IF rReq.json = "bad" \/ rReq.body = Null
     THEN Answer(CatchAnswer, {"request"})
     ELSE LET msgs == Prop(rReq.body, "messages")
          IN  IF msgs.t # "arr" \/ Len(msgs.a) = 0
              THEN Answer(GreetingAnswer, {})
              ELSE IF \E n \in 1..Len(msgs.a) : msgs.a[n] = Null
              THEN Answer(CatchAnswer, {"request"})
              ELSE Await("completion1",
                         [text |-> LastUserText(msgs.a), path |-> "",
                          parsed |-> Null, query |-> Undef, data |-> Undef], {})
  /\ UNCHANGED <<rOuts, rSeen>>

\* the places query of a path is sent, or the path answers without one
QueryOrAnswer(path, parsed, cuisine, keyword, failed) ==
  IF Truthy(cuisine) \/ Truthy(keyword)
  THEN Await("db", [text |-> rCtx.text, path |-> path, parsed |-> parsed,
                    query |-> [cuisine |-> cuisine, keyword |-> keyword],
                    data |-> Undef], failed)
  ELSE Answer(JsonAnswer(buildResponse(parsed, rCtx.text, Undef)), failed)

\* the first completion settles
Completion1(out) ==
  /\ rPc = "completion1"
  /\ rOuts' = Append(rOuts, out)
  /\ UNCHANGED rSeen
  /\ LET inferredFilter == inferFilterFromMessage(rCtx.text)
     IN  IF out.kind = "throw" THEN Answer(CatchAnswer, {"completion"})
         ELSE IF out.kind = "empty"
         THEN QueryOrAnswer("nochoice", Null,
                            Get(inferredFilter, "cuisine_subtype"),
                            Get(inferredFilter, "keyword"), {"nochoice"})
         ELSE IF out.tool # Undef /\ out.tool.name = "queryDatabase"
         THEN LET args == JsonParse(IF out.tool.arguments.t \in {"null", "undefined"}
                                    THEN <<"{", "}">> ELSE out.tool.arguments.s)
              IN  IF ~args.ok \/ args.val = Null
                  THEN Answer(CatchAnswer, {"arguments"})
                  ELSE Await("db",
                             [text |-> rCtx.text, path |-> "tool", parsed |-> Null,
                              query |-> [cuisine |-> Or(Prop(args.val, K_cuisine),
                                                        Get(inferredFilter, "cuisine_subtype")),
                                         keyword |-> Or(Prop(args.val, K_keyword),
                                                        Get(inferredFilter, "keyword"))],
                              data |-> Undef],
                             {})
         ELSE LET parsed == extractJsonFromResponse(normalizeContent(out.content))
                  parsedFilter == Prop(parsed, K_filter)
              IN  QueryOrAnswer("direct", parsed,
                                Or(StringOrNull(Prop(parsedFilter, K_cuisine_subtype)),
                                   Get(inferredFilter, "cuisine_subtype")),
                                Or(StringOrNull(Prop(parsedFilter, K_keyword)),
                                   Get(inferredFilter, "keyword")),
                                IF parsed = Null THEN {"nojson"} ELSE {})

\* the store answers the places query
DbAnswer(storeOk) ==
  /\ rPc = "db"
  /\ UNCHANGED <<rOuts, rSeen>>
  /\ LET data == ChatData(rCtx.query.cuisine, rCtx.query.keyword, storeOk)
         failed == IF storeOk THEN {} ELSE {"db"}
     IN  IF rCtx.path = "tool"
         THEN Await("completion2", [rCtx EXCEPT !.data = data], failed)
         ELSE Answer(JsonAnswer(buildResponse(rCtx.parsed, rCtx.text,
                                              DataOrUndefined(data))), failed)

\* the second completion settles
Completion2(out) ==
  /\ rPc = "completion2"
  /\ rOuts' = Append(rOuts, out)
  /\ UNCHANGED rSeen
  /\ IF out.kind = "throw" THEN Answer(CatchAnswer, {"completion"})
     ELSE LET content == IF out.kind = "empty" THEN << >>
                         ELSE normalizeContent(out.content)
              parsed == extractJsonFromResponse(content)
          IN  Answer(JsonAnswer(buildResponse(parsed, rCtx.text,
                                              DataOrUndefined(rCtx.data))),
                     IF out.kind = "empty" THEN {"nochoice"}
                     ELSE IF parsed = Null THEN {"nojson"} ELSE {})

\* the fields of a filter that are not null
PopulatedFields(filter) == {k \in DOMAIN filter : filter[k] # Null}

\* the client sends the request it was answered once more
ResolveAgain ==
  /\ rPc = "done"
  /\ rResp.kind = "json"
  /\ rSeen = Undef
  /\ rSeen' = [outs |-> rOuts, fields |-> PopulatedFields(rResp.content.filter)]
  /\ rPc' = "request"
  /\ rCtx' = Undef
  /\ rFailed' = {}
  /\ rResp' = Undef
  /\ rOuts' = << >>
  /\ UNCHANGED rReq

\* the utterances of the user
Utterances ==
  {<<"h", "i">>,
   <<"c", "h", "e", "a", "p", " ", "R", "a", "m", "e", "n", " ", "i", "n", " ", "T", "o", "k", "y", "o">>,
   <<"s", "u", "s", "h", "i">>,
   <<"B", "e", "s", "t", " ", "r", "a", "m", "e", "n", " ", "i", "n", " ", "S", "h", "i", "n", "j", "u", "k", "u">>,
   <<"s", "h", "o", "w", " ", "m", "e", " ", "f", "o", "o", "d">>}

ChatMessage(role, content) == Obj([role |-> role, content |-> content])

\* the request bodies: no JSON, null, no messages, messages that are no
\* array or empty, a null message, and conversations
ChatRequests ==
  {[json |-> "bad", body |-> Undef],
   [json |-> "ok", body |-> Null],
   [json |-> "ok", body |-> Obj(EmptyObject)],
   [json |-> "ok", body |-> Obj([messages |-> Str(<<"x">>)])],
   [json |-> "ok", body |-> Obj([messages |-> Arr(<< >>)])],
   [json |-> "ok", body |-> Obj([messages |-> Arr(<<Null>>)])],
   [json |-> "ok", body |-> Obj([messages |-> Arr(<<ChatMessage("assistant", Null)>>)])]}
  \cup
  {[json |-> "ok",
    body |-> Obj([messages |-> Arr(<<ChatMessage("user", Str(u)),
                                     ChatMessage("assistant", Str(<<"o", "k">>))>>)])] :
     u \in Utterances}

\* the texts of the model
ModelTexts ==
  {<<"S", "u", "r", "e">>,
   <<"{", "\"", "f", "i", "l", "t", "e", "r", "\"", ":", "{", "\"", "c", "u", "i", "s", "i", "n", "e", "_", "s", "u", "b", "t", "y", "p", "e", "\"", ":", "\"", "S", "u", "\"", ",", "\"", "f", "a", "v", "o", "r", "i", "t", "e", "s", "\"", ":", "t", "r", "u", "e", "}", ",", "\"", "m", "e", "s", "s", "a", "g", "e", "\"", ":", "\"", "H", "e", "r", "e", " ", "y", "o", "u", " ", "g", "o", "\"", "}">>,
   <<"{", "\"", "f", "i", "l", "t", "e", "r", "\"", ":", "{", "\"", "k", "e", "y", "w", "o", "r", "d", "\"", ":", "\"", " ", "T", "o", " ", "\"", ",", "\"", "f", "a", "v", "o", "r", "i", "t", "e", "s", "\"", ":", "\"", "y", "e", "s", "\"", ",", "\"", "t", "a", "g", "\"", ":", "5", "}", "}">>,
   <<"w", "e", " ", "n", "e", "e", "d", " ", "t", "o", " ", "{", "\"", "m", "e", "s", "s", "a", "g", "e", "\"", ":", "\"", "l", "e", "t", " ", "m", "e", " ", "q", "u", "e", "r", "y", " ", "t", "h", "e", " ", "t", "o", "o", "l", "\"", "}">>,
   <<"[", "1", "]">>,
   <<"{", "\"", "f", "i", "l", "t", "e", "r", "\"", ":", "\"", "a", "l", "l", "\"", ",", "\"", "m", "e", "s", "s", "a", "g", "e", "\"", ":", "\"", "\"", "}">>}

\* the arguments of a tool call
ToolArguments ==
  {Undef,
   Str(<<"{", "\"", "c", "u", "i", "s", "i", "n", "e", "\"", ":", "\"", "S", "u", "\"">>),
   Str(<<"n", "u", "l", "l">>),
   Str(<<"{", "\"", "k", "e", "y", "w", "o", "r", "d", "\"", ":", "\"", "T", "o", "\"", "}">>)}

Completions ==
  {[kind |-> "throw", tool |-> Undef, content |-> Null],
   [kind |-> "empty", tool |-> Undef, content |-> Null],
   [kind |-> "message", tool |-> Undef, content |-> Null],
   [kind |-> "message", tool |-> [name |-> "other", arguments |-> Undef],
    content |-> Str(<<"S", "u", "r", "e">>)]}
  \cup {[kind |-> "message", tool |-> Undef, content |-> Str(t)] : t \in ModelTexts}
  \cup {[kind |-> "message", tool |-> [name |-> "queryDatabase", arguments |-> a],
         content |-> Null] : a \in ToolArguments}

InitRoute ==
  /\ rPc = "request"
  /\ rReq \in ChatRequests
  /\ rCtx = Undef
  /\ rFailed = {}
  /\ rResp = Undef
  /\ rOuts = << >>
  /\ rSeen = Undef

RouteInit == InitRoute /\ SugIdle /\ ExIdle /\ SanIdle /\ SearchIdle /\ UiIdleNoApi

RouteFrame == UNCHANGED <<sanVars, searchVars, uiVars, favVars, sugVars, exVars>>

RouteNext ==
  \/ RouteFrame /\ Receive
  \/ RouteFrame /\ \E out \in Completions : Completion1(out)
  \/ RouteFrame /\ \E storeOk \in BOOLEAN : DbAnswer(storeOk)
  \/ RouteFrame /\ \E out \in Completions : Completion2(out)
  \/ RouteFrame /\ ResolveAgain

SpecRoute == RouteInit /\ [][RouteNext]_vars

\* ------------------------------------------------------------------------
\* Properties of sanitizeInput
\* ------------------------------------------------------------------------
HasSpecial(s) == \E i \in 1..Len(s) : s[i] \in SpecialChars

\* C7: sanitizeInput returns null or a string without the characters
\* % _ ' " \ that is at most MAX_SEARCH_LENGTH long, and null for an input
\* that is missing or not a string.
C7_SanitizedClean ==
  sanPc = "return" =>
    /\ \/ sanOut = Null
       \/ /\ IsStr(sanOut)
          /\ ~HasSpecial(sanOut.s)
          /\ Len(sanOut.s) <= MAX_SEARCH_LENGTH
    /\ (~IsStr(sanIn) => sanOut = Null)

\* a string longer than the maximum with special characters was cut to
\* exactly the maximum length
C7_Witness ==
  /\ sanPc = "return"
  /\ IsStr(sanIn)
  /\ Len(sanIn.s) > MAX_SEARCH_LENGTH
  /\ HasSpecial(sanIn.s)
  /\ IsStr(sanOut)
  /\ Len(sanOut.s) = MAX_SEARCH_LENGTH

\* C8: every non-null result of sanitizeInput is a non-empty string with
\* no leading and no trailing whitespace, whatever the length of the input.
C8_SanitizedTrimmed ==
  (sanPc = "return" /\ sanOut # Null) =>
    /\ IsStr(sanOut)
    /\ sanOut.s # << >>
    /\ Head(sanOut.s) \notin WhiteSpace
    /\ sanOut.s[Len(sanOut.s)] \notin WhiteSpace

\* ------------------------------------------------------------------------
\* Properties of the search endpoint
\* ------------------------------------------------------------------------
\* p occurs in s, letter case ignored
Contains(s, p) ==
  \E i \in 0..(Len(s) - Len(p)) :
    \A j \in 1..Len(p) : LowerChar(s[i + j]) = LowerChar(p[j])

ColumnContains(col, p) == IsStr(col) /\ Contains(col.s, p)

\* a filter field holding a string that is not blank
Populated(v) == IsStr(v) /\ Trim(v.s) # << >>

SearchAnswered == sPc = "response" /\ sResp.status = 200

\* the condition a filter field implies, on the value v as given
FieldHolds(r, k, v) ==
  CASE k = "keyword" -> \/ ColumnContains(r.name, v)
                        \/ ColumnContains(r.address, v)
                        \/ ColumnContains(r.city, v)
    [] k = "tag"     -> \E j \in 1..Len(r.tags) : r.tags[j] = v
    [] OTHER         -> ColumnContains(r[k], v)

StringFields ==
  {"cuisine_subtype", "cuisine_category", "keyword", "tag", "price_level",
   "halal_status"}

\* C4: for a non-empty filter every returned place satisfies the condition
\* of each populated field as the client supplied it.
C4_NoFalsePositives ==
  (SearchAnswered /\ hasNonEmptyValues(BodyFilter(sBody))) =>
    \A i \in 1..Len(sResp.places) :
      \A k \in StringFields :
        Populated(Get(BodyFilter(sBody), k)) =>
          FieldHolds(Row(sResp.places[i]), k, Get(BodyFilter(sBody), k).s)

\* a value that constrains nothing: null, absent, blank or an empty list
EmptyValue(v) ==
  \/ v \in {Null, Undef}
  \/ IsStr(v) /\ Trim(v.s) = << >>
  \/ v.t = "arr" /\ Len(v.a) = 0

AllEmpty(f) == \A k \in DOMAIN f : EmptyValue(f[k])

AllRowIds == [i \in 1..Len(PlacesTable) |-> PlacesTable[i].id]

\* C5: a filter whose fields are all null, absent, blank or empty lists
\* builds no predicate and is answered exactly as a request without filter:
\* all rows up to the cap.
C5_EmptyFilterIsNoFilter ==
  (sPc = "response" /\ AllEmpty(BodyFilter(sBody))) =>
    /\ sQuery = << >>
    /\ sResp = POST([filter |-> Undef], sStoreOk)
    /\ sStoreOk => sResp.places = Limit(AllRowIds, MAX_PLACES_LIMIT)

\* a filter object with a blank string and an empty list was answered with
\* every row
C5_Witness ==
  /\ sPc = "response"
  /\ sBody.filter.t = "obj"
  /\ AllEmpty(sBody.filter.o)
  /\ \E k \in DOMAIN sBody.filter.o : IsStr(sBody.filter.o[k])
  /\ \E k \in DOMAIN sBody.filter.o : sBody.filter.o[k].t = "arr"
  /\ sResp.status = 200
  /\ Len(sResp.places) = Len(PlacesTable)

\* the sanitized value of a field
San(f, k) == sanitizeInput(Get(f, k))

CuisineMatches(r, f) ==
  (San(f, "cuisine_subtype") # Null \/ San(f, "cuisine_category") # Null) =>
    \/ /\ San(f, "cuisine_subtype") # Null
       /\ ColumnContains(r.cuisine_subtype, San(f, "cuisine_subtype").s)
    \/ /\ San(f, "cuisine_category") # Null
       /\ ColumnContains(r.cuisine_category, San(f, "cuisine_category").s)

DimensionMatches(r, f, k) ==
  San(f, k) # Null => FieldHolds(r, k, San(f, k).s)

\* the search terms that survive sanitizing
LiveTerms(f) ==
  IF Get(f, "search_terms").t = "arr"
  THEN {sanitizeInput(Get(f, "search_terms").a[i]) :
          i \in 1..Len(Get(f, "search_terms").a)} \ {Null}
  ELSE {}

TermColumns == {"name", "address", "city", "cuisine_subtype", "cuisine_category"}

TermsMatch(r, f) ==
  LiveTerms(f) # {} =>
    \E t \in LiveTerms(f) : \E c \in TermColumns : ColumnContains(r[c], t.s)

FourDimensions(r, f) ==
  /\ CuisineMatches(r, f)
  /\ DimensionMatches(r, f, "keyword")
  /\ DimensionMatches(r, f, "tag")
  /\ DimensionMatches(r, f, "price_level")

IdsWhere(P(_)) ==
  LET hit == SelectSeq(PlacesTable, P) IN [i \in 1..Len(hit) |-> hit[i].id]

C1_SingleRetry ==
  \A c \in Calls :
    /\ calls[c].pc \in {"wait", "child"} => calls[c].attempt = 1
    /\ calls[c].pc = "child" => calls[c].waited >= calls[c].waitMs

\* a step of the handlers of invocation c that run after its first await
StepOf(c) ==
  \/ AbortCatch(c)
  \/ FetchFail(c)
  \/ BodyFail(c)
  \/ \E body \in ChatBodies : BodyRead(c, body)
  \/ WaitDone(c)

\* C2: once the chat is reset or a new turn starts, nothing of an earlier
\* turn (late response, error or abort handler, pending retry) appends a
\* message or changes the last resolved filter or the displayed places.
C2_StaleTurnCommitsNothing ==
  [][\A c \in Calls :
       (calls[c].stale /\ StepOf(c)) =>
         /\ messages' = messages
         /\ lastFilter' = lastFilter
         /\ places' = places]_vars

\* C3: after a reset and until the next submission the message list is
\* empty, the last resolved filter is empty and the displayed places are
\* the full unfiltered set.
C3_ResetHolds ==
  cleared =>
    /\ messages = << >>
    /\ lastFilter = EmptyObject
    /\ places = initialPlaces

\* a chat request failed: it threw, was aborted, or was answered with an
\* error status or a body that is no JSON
ChatFailed ==
  \E c \in Calls :
    \/ AbortCatch(c)
    \/ FetchFail(c)
    \/ BodyFail(c)
    \/ \E body \in ChatBodies :
         /\ body.kind = "nonjson" \/ calls[c].status = 500
         /\ BodyRead(c, body)

\* a place search failed: error status, or it threw
SearchFailed ==
  \E s \in Searches : SearchRespond(s, FALSE) \/ SearchThrow(s)

\* a chat request was answered with 429 and a JSON body: the turn is not
\* over, the request is sent again after the sleep
RateLimited ==
  \E c \in Calls : \E body \in ChatBodies :
    /\ body.kind # "nonjson" /\ calls[c].status = 429
    /\ BodyRead(c, body)

C10_NoRequestOutlivesTimeout ==
  \A c \in Calls : Pending(c) => calls[c].age <= REQUEST_TIMEOUT

\* C11: a place-list snippet is rendered under a message only if the filter
\* of its turn was non-empty and no place search is in flight.
C11_SnippetOnlyWhenLoaded ==
  \A i \in 1..Len(messages) :
    shouldShowPlaces(messages[i]) =>
      /\ messages[i].kind = "reply"
      /\ \A s \in Searches : searches[s].pc # "pending"

\* a submission: the form is submitted or a quick question is clicked
Submission ==
  \/ \E input \in Inputs : handleSubmit(input)
  \/ handleQuickQuestion

C13_FavoriteSet ==
  [][nFavOps' # nFavOps =>
       /\ NoDup(favs')
       /\ (favLast'.op = "add" /\ favLast'.id \in Elems(favs)) => favs' = favs
       /\ (favLast'.op = "remove" /\ favLast'.id \notin Elems(favs)) => favs' = favs
       /\ (favLast'.op = "toggle" /\ favLast.op = "toggle"
             /\ favLast'.id = favLast.id) =>
            ((favLast'.id \in Elems(favs')) = (favLast.id \in Elems(favLast.before)))]_vars

\* an id was added a second time, and an id was toggled twice
C13_Witness ==
  /\ nFavOps = MaxFavOps
  /\ favLast.op = "add"
  /\ favLast.id \in Elems(favLast.before)
  /\ Len(favs) = 2

\* C14: when the Favorites panel is opened it lists exactly the places
\* whose ids are in the stored list.
C14_PanelListsFavorites ==
  [][(~showFavorites /\ showFavorites') =>
       Elems(favoritePlaces') = Elems(favs')]_vars

\* a chat answer whose filter sets favorites is committed
FavoritesReply ==
  \E c \in Calls : \E body \in ChatBodies :
    /\ body.kind = "reply" /\ calls[c].status = 200
    /\ Get(ParsedFilter(body), "favorites") = Bool(TRUE)
    /\ BodyRead(c, body)

\* the columns a request to the search endpoint puts a condition on
QueryColumns(body) ==
  LET q == SearchQuery(body)
  IN  UNION {IF q[i].kind = "contains" THEN {"tags"}
             ELSE {q[i].conds[j].col : j \in 1..Len(q[i].conds)} :
             i \in 1..Len(q)}

\* C15: a filter with favorites = true starts no request to the search
\* endpoint, the displayed places are taken from the stored favorites, and
\* no request ever carries the flag or turns it into a condition.
C15_FavoritesClientSide ==
  [][/\ FavoritesReply =>
          /\ searches' = searches
          /\ nSearches' = nSearches
          /\ isFiltering' = isFiltering
          /\ places' = SelectSeq(initialPlaces, LAMBDA id : id \in Elems(favs))
     /\ \A s \in Searches :
          searches'[s].pc = "pending" =>
            /\ Get(BodyFilter(searches'[s].body), "favorites") # Bool(TRUE)
            /\ "favorites" \notin QueryColumns(searches'[s].body)]_vars

\* a favorites filter was committed while a search was pending and the
\* stored favorites are displayed
C15_Witness ==
  /\ Get(lastFilter, "favorites") = Bool(TRUE)
  /\ places = <<2>>
  /\ nSearches = 1
  /\ \E s \in Searches : searches[s].pc = "pending"
  /\ messages # << >>
  /\ messages[Len(messages)].showPlaces

\* C16: with favorites = true and a keyword, every displayed place is in
\* the stored favorites and matches the keyword.
C16_FavoritesAndKeyword ==
  [][\A c \in Calls : \A body \in ChatBodies :
       (/\ body.kind = "reply" /\ calls[c].status = 200
        /\ Get(ParsedFilter(body), "favorites") = Bool(TRUE)
        /\ Populated(Get(ParsedFilter(body), "keyword"))
        /\ BodyRead(c, body)) =>
         \A i \in 1..Len(places') :
           /\ places'[i] \in Elems(favs)
           /\ FieldHolds(Row(places'[i]), "keyword",
                         Get(ParsedFilter(body), "keyword").s)]_vars

\* ------------------------------------------------------------------------
\* Properties of the suggestion endpoint
\* ------------------------------------------------------------------------
\* a required field that is absent, null or blank
MissingField(v) == v.t \in {"undefined", "null"} \/ (IsStr(v) /\ Trim(v.s) = << >>)

\* the recorded suggestion holds every field trimmed and cut to its length
RecordedClean(body, rec) ==
  \A i \in 1..Len(SuggestFields) :
    LET v == Prop(body, SuggestFields[i].field)
    IN  IF IsStr(v) /\ Trim(v.s) # << >>
        THEN /\ IsStr(rec[i])
             /\ rec[i].s = SubSeq(Trim(v.s), 1, Len(rec[i].s))
             /\ Len(rec[i].s) = Min(Len(Trim(v.s)), SuggestFields[i].max)
        ELSE rec[i] = Null

\* C17: the suggestion endpoint answers 400 with the error naming name and
\* address exactly when name or address is missing or blank, answers
\* success after recording the trimmed and truncated fields otherwise, and
\* gives no other answer for a missing or invalid required field.
C17_SuggestAnswers ==
  sugPc = "response" =>
    LET name == Prop(sugBody, "name")
        address == Prop(sugBody, "address")
    IN  /\ (sugResp.status = 400) <=> (MissingField(name) \/ MissingField(address))
        /\ sugResp.status = 400 =>
             sugResp.error = "Restaurant name and address are required."
        /\ (~IsStr(name) \/ ~IsStr(address)) => sugResp.status = 400
        /\ (sugResp.status # 400 /\ IsStr(name) /\ IsStr(address)
             /\ sugBody.t = "obj"
             /\ \A k \in DOMAIN sugBody.o : sugBody.o[k].t \in {"str", "null"}) =>
             /\ sugResp.success
             /\ Len(sugLog) = 1
             /\ RecordedClean(sugBody, sugLog[1])

\* ------------------------------------------------------------------------
\* Properties of extractJsonFromResponse
\* ------------------------------------------------------------------------
\* the {...} blocks of s that parse as JSON and have a filter or message key
AnswerBlocks(s) ==
  {b \in (1..Len(s)) \X (1..Len(s)) :
     /\ b[1] < b[2]
     /\ s[b[1]] = "{"
     /\ s[b[2]] = "}"
     /\ JsonParse(SubSeq(s, b[1], b[2])).ok
     /\ HasAnswerKey(JsonParse(SubSeq(s, b[1], b[2])).val)}

\* the one of them that ends last
LastBlock(s) ==
  CHOOSE b \in AnswerBlocks(s) :
    \A c \in AnswerBlocks(s) : c[2] < b[2] \/ (c[2] = b[2] /\ c[1] <= b[1])

\* C20: for a text that is not JSON as a whole, the extractor returns the
\* last {...} block of the text that parses as JSON and has a filter or
\* message key, whenever the text has such a block.
C20_LastAnswerBlock ==
  exPc = "return" =>
    LET s == Trim(exText)
    IN  (~JsonParse(s).ok /\ AnswerBlocks(s) # {}) =>
          exOut = JsonParse(SubSeq(s, LastBlock(s)[1], LastBlock(s)[2])).val

\* ------------------------------------------------------------------------
\* Properties of the chat endpoint
\* ------------------------------------------------------------------------
FilterStringFields == {"cuisine_subtype", "cuisine_category", "price_level", "tag", "keyword"}

\* C18: the filter the chat endpoint returns has all six fields, each
\* string field null or a non-empty trimmed string, and favorites true,
\* false or null.
C18_FilterWellFormed ==
  (rPc = "done" /\ rResp.kind = "json") =>
    LET filter == rResp.content.filter
    IN  /\ DOMAIN filter = FilterStringFields \cup {"favorites"}
        /\ \A k \in FilterStringFields :
             \/ filter[k] = Null
             \/ IsStr(filter[k]) /\ filter[k].s # << >> /\ Trim(filter[k].s) = filter[k].s
        /\ filter.favorites \in {Null, Bool(TRUE), Bool(FALSE)}

\* the answer is an assistant payload with a filter of six fields and a
\* message
WellFormedAnswer ==
  /\ rResp.kind = "json"
  /\ rResp.role = "assistant"
  /\ DOMAIN rResp.content.filter = FilterStringFields \cup {"favorites"}
  /\ rResp.content.message.kind \in {"generated", "fixed", "model"}
  /\ rResp.content.message.kind = "model" => rResp.content.message.text # << >>

C21_FallbackInferred ==
  (rPc = "done" /\ rFailed \cap {"completion", "nochoice", "nojson"} # {}) =>
    /\ rResp.kind = "json"
    /\ rResp.content.filter = Spread(emptyFilter, inferFilterFromMessage(rCtx.text))

\* the utterance asks for browsing
Browsing(text) ==
  \E w \in {<<"s", "h", "o", "w">>, <<"f", "i", "n", "d">>,
             <<"r", "e", "c", "o", "m", "m", "e", "n", "d">>} :
    Includes(LowerStr(text), w)

\* C22: for an utterance that asks for browsing (show, find, recommend) the
\* filter the endpoint returns for an answer of the model is never entirely
\* empty.
C22_BrowsingNonEmpty ==
  (/\ rPc = "done"
   /\ rOuts # << >>
   /\ rFailed = {}
   /\ Browsing(rCtx.text)) =>
    PopulatedFields(rResp.content.filter) # {}

\* C23: the same request resolved twice with the completions returning the
\* same both times (or failing the same way) yields filters with the same
\* populated fields, whatever the places query does.
C23_SameFields ==
  (/\ rPc = "done"
   /\ rSeen # Undef
   /\ rResp.kind = "json"
   /\ rOuts = rSeen.outs) =>
    PopulatedFields(rResp.content.filter) = rSeen.fields

\* the request was resolved twice with no choice from the tool call's second
\* completion, the places query having failed the second time
C23_Witness ==
  /\ rPc = "done"
  /\ rSeen # Undef
  /\ rOuts = rSeen.outs
  /\ Len(rOuts) = 2
  /\ rOuts[2].kind = "empty"
  /\ "db" \in rFailed
  /\ rSeen.fields = {"cuisine_subtype", "keyword"}
  /\ PopulatedFields(rResp.content.filter) = rSeen.fields

\* ------------------------------------------------------------------------
\* Further properties of the chat view and the map
\* ------------------------------------------------------------------------
\* the input holds nothing but white space
BlankInput(input) == \A i \in 1..Len(input) : input[i] \in WhiteSpace

\* C24: submitting an empty or whitespace-only utterance sends no request
\* and changes neither the message list, the loading and retrying flags,
\* the last resolved filter, the displayed places nor the guest counter.
C24_BlankSubmitNoChange ==
  [][\A input \in Inputs :
       (BlankInput(input) /\ handleSubmit(input)) =>
         /\ calls' = calls
         /\ nCalls' = nCalls
         /\ searches' = searches
         /\ messages' = messages
         /\ loading' = loading
         /\ isRetrying' = isRetrying
         /\ lastFilter' = lastFilter
         /\ places' = places
         /\ guestUsed' = guestUsed]_vars

\* a turn was answered and the view would accept another utterance, so a
\* blank one is turned down by the test of the input alone
C24_Witness ==
  /\ ~AbortPending
  /\ ~loading
  /\ ~isRetrying
  /\ canMakeQuery
  /\ nCalls < MaxCalls
  /\ nTurns = 1
  /\ messages # << >>
  /\ \E input \in Inputs : BlankInput(input) /\ input # << >>

\* C25: closing the info popup shown for a place leaves that place neither
\* hovered nor selected, and leaves a different selected place selected.
C25_PopupClose ==
  [][PopupClose =>
       /\ hoveredPlace' = 0
       /\ selectedPlace' # activePlace
       /\ selectedPlace # activePlace => selectedPlace' = selectedPlace]_vars

\* the popup of a hovered place was closed while another place was selected
C25_Witness ==
  /\ popupClosed # 0
  /\ hoveredPlace = 0
  /\ selectedPlace # 0
  /\ selectedPlace # popupClosed

\* the popup of the selected place was closed
C25_Closed ==
  /\ popupClosed # 0
  /\ hoveredPlace = 0
  /\ selectedPlace = 0

\* C26: every accepted chat turn ends after a bounded number of requests
\* with loading and isRetrying false, also when every attempt is answered
\* 429: once the last of MaxCalls requests of the current turn has been
\* answered, both flags are false.
C26_TurnTerminates ==
  \A c \in Calls :
    (calls[c].attempt = MaxCalls /\ ~calls[c].stale /\ ~Pending(c)) =>
      (~loading /\ ~isRetrying)

\* the names of the first MAX_DISPLAY_PLACES displayed places
DisplayedNames ==
  LET shown == Slice0(places, MAX_DISPLAY_PLACES)
  IN  [i \in 1..Len(shown) |-> Row(shown[i]).name]

\* C27: the currentPlaces digest sent with the request of an accepted chat
\* turn describes (at most MAX_DISPLAY_PLACES of) the places displayed at
\* that moment, never the results of an earlier filter.
C27_DigestOfDisplayed ==
  [][(Submission /\ nCalls' = nCalls + 1) => placesContext = DisplayedNames]_vars

\* C28: when place searches overlap, the displayed places after all of them
\* have completed are the result of the most recently requested filter: the
\* answer of an earlier search that arrives last, after the later requests
\* have been served without error, does not change the displayed places.
C28_LatestSearchWins ==
  [][\A s \in Searches :
       (/\ s < nSearches
        /\ \A x \in Searches \ {s} : searches[x].pc # "pending"
        /\ searchError = "none"
        /\ \E storeOk \in BOOLEAN : SearchRespond(s, storeOk))
         => places' = places]_vars

\* invocation c of processMessage has started and not finished
Running(c) == calls[c].pc \notin {"none", "done"}

\* C29: at most one chat turn is in progress at any time: while an
\* invocation of an earlier turn is still running (its request, its 429
\* wait or its retry), no request of a later turn has been sent.
C29_OneTurnInProgress ==
  \A c, d \in Calls : (Running(c) /\ Running(d)) => calls[c].stale = calls[d].stale

\* filter f constrains nothing: every string field is null or blank and
\* favorites is null or false
ConstrainsNothing(f) ==
  \A k \in DOMAIN f :
    IF k = "favorites" THEN f[k] \in {Null, Undef, Bool(FALSE)}
    ELSE f[k] \in {Null, Undef} \/ (IsStr(f[k]) /\ Trim(f[k].s) = << >>)

\* C30: a chat turn whose resolved filter constrains nothing changes
\* neither the displayed places nor the last resolved filter, starts no
\* search and appends a reply without a place list.
C30_EmptyFilterChangesNothing ==
  [][\A c \in Calls : \A body \in ChatBodies :
       (/\ body.kind = "reply"
        /\ calls[c].status = 200
        /\ ConstrainsNothing(ParsedFilter(body))
        /\ BodyRead(c, body))
         => /\ places' = places
            /\ lastFilter' = lastFilter
            /\ searches' = searches
            /\ ~messages'[Len(messages')].showPlaces]_vars

====
